---- MODULE Spec2Model ----
(***************************************************************************)
(* nest-mediator: the MediatorBus (handler registries, behavior registry,  *)
(* pipeline builder, send/query) and the pipeline behaviors that run in    *)
(* the composed chain.                                                     *)
(***************************************************************************)
EXTENDS Integers, Sequences, FiniteSets, TLC

VARIABLES
    commandHandlers,    \* Map<string, handler class>, keyed by command name
    queryHandlers,      \* Map<string, handler class>, keyed by query name
    pipelineBehaviors,  \* RegisteredBehavior[], kept sorted by priority
    thrown,             \* the error the last registration call threw, if it threw
    regLog,             \* history: the registerPipelineBehavior calls, in call order
    disp,               \* the dispatches (send/query calls), by dispatch id
    exceptionHandlers,  \* ExceptionHandlingBehavior.exceptionHandlers
    performanceOptions, \* the PERFORMANCE_BEHAVIOR_OPTIONS given to PerformanceBehavior
    dynamicModule,      \* what forRoot / forRootAsync returned: providers and options
    cache,              \* the Map of caching.behavior.ts: key -> [data, expiry]
    failureTracker,     \* the Map of process-payment.handler.ts: orderId -> failures
    currentUser,        \* AuthorizationService.currentUser: <<>> when null
    auditLogs,          \* AuditLoggingService.auditLogs
    now,                \* Date.now(), in ms since the application started
    failCount,          \* ProcessPaymentCommand.failCount of the payments sent
    validator           \* what ValidationBehavior finds: the request, class-validator

\* The state of the example application's behaviors and handlers
exampleVars == <<cache, failureTracker, currentUser, auditLogs, now, failCount, validator>>

vars == <<commandHandlers, queryHandlers, pipelineBehaviors, thrown, regLog, disp,
          exceptionHandlers, performanceOptions, dynamicModule, exampleVars>>

----------------------------------------------------------------------------
(* Bounds *)

\* registerPipelineBehavior is called at most this many times
MaxBehaviors == 3

\* At most this many registerExceptionHandler calls
MaxExceptionHandlers == 2

----------------------------------------------------------------------------
(* The classes of the application: requests, handlers, behaviors *)

\* JavaScript's undefined (a missing option, a missing Map entry)
Undefined == "undefined"

\* Request classes. "GetUserQuery@admin" is a second class that is also
\* called GetUserQuery: the one declared without @SkipBehavior.
RequestTypes ==
    {"CreateUserCommand", "ProcessPaymentCommand", "GetUserQuery", "GetUserQuery@admin"}

\* constructor.name of a request class
Name(t) == IF t = "GetUserQuery@admin" THEN "GetUserQuery" ELSE t

\* @SkipBehavior metadata of a request class (reflector.get ... ?? [])
SkipBehaviorsOf(t) ==
    CASE t = "GetUserQuery"          -> {"PerformanceBehavior", "LoggingBehavior"}
      [] t = "ProcessPaymentCommand" -> {"AuditLoggingBehavior"}
      [] OTHER                       -> {}

\* The request class declared on the parameter of a behavior's @Handle()
\* method (design:paramtypes), Undefined for a generic behavior
HandleParamType(b) ==
    IF b = "CreateUserValidationBehavior" THEN "CreateUserCommand" ELSE Undefined

\* PipelineBehaviorOptions: priority is <<>> when missing, <<p>> when set
Options(p, s) == [priority |-> p, scope |-> s]

\* The behavior classes the application registers, each with the options of
\* its @PipelineBehavior decorator; CustomBehavior is registered through the
\* API with empty options.
BehaviorDecls ==
    { [type |-> "RetryBehavior",                options |-> Options(<<-50>>, "command")],
      [type |-> "LoggingBehavior",              options |-> Options(<<0>>,   "all")],
      [type |-> "CachingBehavior",              options |-> Options(<<5>>,   "query")],
      [type |-> "CreateUserValidationBehavior", options |-> Options(<<95>>,  "command")],
      [type |-> "CustomBehavior",               options |-> Options(<<>>,    Undefined)] }

\* The behavior classes of the library, which forRootAsync provides when they
\* are enabled
BuiltInBehaviorDecls ==
    { [type |-> "ExceptionHandlingBehavior", options |-> Options(<<-100>>, "all")],
      [type |-> "LoggingBehavior",           options |-> Options(<<0>>,    "all")],
      [type |-> "PerformanceBehavior",       options |-> Options(<<10>>,   "all")],
      [type |-> "ValidationBehavior",        options |-> Options(<<100>>,  "all")] }

\* Implementations of IExceptionHandler: the names of the errors canHandle
\* accepts, and the name of the error handle gives
ErrorNames ==
    {"Error", "ValidationException", "BadRequestException", "ConflictException",
     "InternalServerErrorException"}

ExceptionHandlerDecls ==
    { [handler |-> "ValidationExceptionHandler", accepts |-> {"ValidationException"},
       gives |-> "BadRequestException"],
      [handler |-> "DomainExceptionHandler", accepts |-> {"Error"},
       gives |-> "ConflictException"],
      [handler |-> "AnyExceptionHandler", accepts |-> ErrorNames,
       gives |-> "InternalServerErrorException"] }

\* The handler classes, each with the request class of its @CommandHandler /
\* @QueryHandler decorator.
HandlerDecls ==
    { [handler |-> "CreateUserHandler",     request |-> "CreateUserCommand",     kind |-> "command"],
      [handler |-> "CreateUserHandlerV2",   request |-> "CreateUserCommand",     kind |-> "command"],
      [handler |-> "ProcessPaymentHandler", request |-> "ProcessPaymentCommand", kind |-> "command"],
      [handler |-> "GetUserHandler",        request |-> "GetUserQuery",          kind |-> "query"],
      [handler |-> "AdminGetUserHandler",   request |-> "GetUserQuery@admin",    kind |-> "query"],
      [handler |-> "GetUserExportHandler",  request |-> "GetUserQuery",          kind |-> "command"] }

----------------------------------------------------------------------------
(* Map<string, T> *)

MapHas(m, k) == k \in DOMAIN m

MapGet(m, k) == IF k \in DOMAIN m THEN m[k] ELSE Undefined

MapSet(m, k, v) == [x \in (DOMAIN m) \cup {k} |-> IF x = k THEN v ELSE m[x]]

----------------------------------------------------------------------------
(* Handler registry *)

\* No error: the call returned
NothingThrown == [name |-> Undefined, message |-> <<>>]

\* new Error(`Command handler for ${commandName} is already registered`)
AlreadyRegistered(what, requestName) ==
    [name |-> "Error", message |-> <<what, requestName, "is already registered">>]

\* A registration that does not look for an earlier one
registerCommandHandlerOverwriting(command, handler) ==
    /\ commandHandlers' = MapSet(commandHandlers, Name(command), handler)
    /\ thrown' = NothingThrown
    /\ UNCHANGED <<queryHandlers, pipelineBehaviors, regLog, disp,
                   exceptionHandlers, performanceOptions, dynamicModule, exampleVars>>

\* registerCommandHandler(command, handler)
registerCommandHandler(command, handler) ==
    LET commandName == Name(command) IN
    /\ IF MapHas(commandHandlers, commandName)
         THEN /\ thrown' = AlreadyRegistered("Command handler for", commandName)
              /\ UNCHANGED commandHandlers
         ELSE /\ commandHandlers' = MapSet(commandHandlers, commandName, handler)
              /\ thrown' = NothingThrown
    /\ UNCHANGED <<queryHandlers, pipelineBehaviors, regLog, disp,
                   exceptionHandlers, performanceOptions, dynamicModule, exampleVars>>

\* A registration of a query handler that replaces an earlier one
registerQueryHandlerOverwriting(query, handler) ==
    /\ queryHandlers' = MapSet(queryHandlers, Name(query), handler)
    /\ thrown' = NothingThrown
    /\ UNCHANGED <<commandHandlers, pipelineBehaviors, regLog, disp,
                   exceptionHandlers, performanceOptions, dynamicModule, exampleVars>>

\* registerQueryHandler(query, handler)
registerQueryHandler(query, handler) ==
    LET queryName == Name(query) IN
    /\ IF MapHas(queryHandlers, queryName)
         THEN /\ thrown' = AlreadyRegistered("Query handler for", queryName)
              /\ UNCHANGED queryHandlers
         ELSE /\ queryHandlers' = MapSet(queryHandlers, queryName, handler)
              /\ thrown' = NothingThrown
    /\ UNCHANGED <<commandHandlers, pipelineBehaviors, regLog, disp,
                   exceptionHandlers, performanceOptions, dynamicModule, exampleVars>>

----------------------------------------------------------------------------
(* Behavior registry *)

\* A missing priority that sorts after every priority given
PriorityOfMissingLast(rb) ==
    IF rb.options.priority = <<>> THEN 1000 ELSE rb.options.priority[1]

\* options.priority ?? 0
PriorityOf(rb) == IF rb.options.priority = <<>> THEN 0 ELSE rb.options.priority[1]

\* options.scope ?? 'all'
ScopeOf(rb) == IF rb.options.scope = Undefined THEN "all" ELSE rb.options.scope

\* A comparator that puts the higher priority first
ComparePriorityDescending(a, b) == PriorityOf(b) - PriorityOf(a)

\* The comparator of the sort: negative when a goes before b
ComparePriority(a, b) == PriorityOf(a) - PriorityOf(b)

\* An insertion that is not stable: x goes before the elements it ties with
InsertBeforeTies(sorted, x) ==
    LET n == Cardinality({i \in 1..Len(sorted) :
                             PriorityOf(sorted[i]) - PriorityOf(x) < 0})
    IN  SubSeq(sorted, 1, n) \o <<x>> \o SubSeq(sorted, n + 1, Len(sorted))

\* One insertion of a stable sort: x goes after every element that does not
\* compare greater than it
InsertSorted(sorted, x) ==
    LET n == Cardinality({i \in 1..Len(sorted) : ComparePriority(sorted[i], x) <= 0})
    IN  SubSeq(sorted, 1, n) \o <<x>> \o SubSeq(sorted, n + 1, Len(sorted))

\* Array.prototype.sort with ComparePriority (a stable sort)
RECURSIVE SortByPriority(_)
SortByPriority(s) ==
    IF s = <<>> THEN <<>>
    ELSE InsertSorted(SortByPriority(SubSeq(s, 1, Len(s) - 1)), s[Len(s)])

\* A registry that is never sorted: the behaviors in registration order
PushOnly(behaviors, behaviorType, options) ==
    Append(behaviors, [type |-> behaviorType, options |-> options])

\* The registry after registerPipelineBehavior(behaviorType, options)
PushAndSort(behaviors, behaviorType, options) ==
    SortByPriority(Append(behaviors, [type |-> behaviorType, options |-> options]))

\* The registry after the registerPipelineBehavior calls of `calls`, in order
RECURSIVE Replay(_)
Replay(calls) ==
    IF calls = <<>> THEN <<>>
    ELSE LET c == calls[Len(calls)] IN
         PushAndSort(Replay(SubSeq(calls, 1, Len(calls) - 1)), c.type, c.options)

\* A registration seen at once by the dispatches in flight: their chains are
\* selected again from the new registry
registerPipelineBehaviorLive(behaviorType, options) ==
    LET registry == PushAndSort(pipelineBehaviors, behaviorType, options) IN
    /\ Len(regLog) < MaxBehaviors
    /\ pipelineBehaviors' = registry
    /\ regLog' = Append(regLog, [type |-> behaviorType, options |-> options])
    /\ thrown' = NothingThrown
    /\ disp' = [d \in DOMAIN disp |->
            IF disp[d].st # "running" THEN disp[d]
            ELSE LET chain == SelectSeq(registry,
                                LAMBDA rb : disp[d].kind \in {rb.options.scope, "all"}
                                            \/ rb.options.scope \in {Undefined, "all"})
                 IN  [disp[d] EXCEPT !.chain = chain,
                                     !.calls = [i \in 1..Len(chain) |-> 0]]]
    /\ UNCHANGED <<commandHandlers, queryHandlers, exceptionHandlers, performanceOptions, dynamicModule, exampleVars>>

\* registerPipelineBehavior(behaviorType, options)
registerPipelineBehavior(behaviorType, options) ==
    /\ Len(regLog) < MaxBehaviors
    /\ pipelineBehaviors' = PushAndSort(pipelineBehaviors, behaviorType, options)
    /\ regLog' = Append(regLog, [type |-> behaviorType, options |-> options])
    /\ thrown' = NothingThrown
    /\ UNCHANGED <<commandHandlers, queryHandlers, disp,
                   exceptionHandlers, performanceOptions, dynamicModule, exampleVars>>

\* ExceptionHandlingBehavior.registerExceptionHandler(handler)
registerExceptionHandler(handler) ==
    /\ Len(exceptionHandlers) < MaxExceptionHandlers
    /\ exceptionHandlers' = Append(exceptionHandlers, handler)
    /\ UNCHANGED <<commandHandlers, queryHandlers, pipelineBehaviors, thrown, regLog,
                   disp, performanceOptions, dynamicModule, exampleVars>>

----------------------------------------------------------------------------
(* Results and errors *)

\* An Error object: its name, the fields of HandlerNotFoundException and the
\* errors of ValidationException
Err(name) ==
    [name |-> name, requestName |-> Undefined, requestType |-> Undefined,
     errors |-> <<>>]

\* new HandlerNotFoundException(requestName, requestType)
HandlerNotFoundException(requestName, requestType) ==
    [name |-> "HandlerNotFoundException", requestName |-> requestName,
     requestType |-> requestType, errors |-> <<>>]

NoError == Err(Undefined)

\* A settled promise
Resolved(v) == [kind |-> "ok", value |-> v, error |-> NoError]
Rejected(e) == [kind |-> "err", value |-> Undefined, error |-> e]

----------------------------------------------------------------------------
(* Pipeline builder *)

\* A filter that does not look at the scope
ApplicableInAnyScope(rb, requestClass, scope) ==
    ~(\E skipType \in SkipBehaviorsOf(requestClass) : skipType = rb.type)

\* A filter that does not look at the skip-list
ApplicableDespiteSkip(rb, requestClass, scope) ==
    rb.options.scope \in {Undefined, "all", scope}

\* The filter of buildPipeline: is the registered behavior rb applicable to a
\* request of class requestClass dispatched in `scope`
Applicable(rb, requestClass, scope) ==
    LET behaviorsToSkip == SkipBehaviorsOf(requestClass)
        behaviorScope == ScopeOf(rb)
        scopeMatches == behaviorScope = "all" \/ behaviorScope = scope
        shouldSkip == \E skipType \in behaviorsToSkip : skipType = rb.type
    IN  scopeMatches /\ ~shouldSkip

\* A builder that sorts what it selected by descending priority
applicableBehaviorsResorted(behaviors, requestClass, scope) ==
    LET selected == SelectSeq(behaviors, LAMBDA rb : Applicable(rb, requestClass, scope))
    IN  [i \in 1..Len(selected) |-> selected[Len(selected) + 1 - i]]

\* applicableBehaviors: the chain, outermost first; the continuation number
\* Len + 1 is the handler
applicableBehaviors(behaviors, requestClass, scope) ==
    SelectSeq(behaviors, LAMBDA rb : Applicable(rb, requestClass, scope))

----------------------------------------------------------------------------
(* Dispatch: send / query *)

DispatchIds == {"d1"}

IdleDispatch ==
    [st |-> "idle", kind |-> Undefined, request |-> Undefined, handler |-> Undefined,
     snapshot |-> <<>>, chain |-> <<>>, stack |-> <<>>, mode |-> "none", pos |-> 0,
     calls |-> <<>>, trace |-> <<>>, log |-> <<>>, outcome |-> <<>>]

\* A builder that leaves the behaviors out once a dispatch has failed
StartedAfterFailure(scope, request, handlerType) ==
    LET failed == \E d \in DOMAIN disp :
                      disp[d].st = "done" /\ disp[d].outcome[1].kind = "err"
        chain == IF failed THEN <<>>
                 ELSE applicableBehaviors(pipelineBehaviors, request, scope)
    IN  [st |-> "running", kind |-> scope, request |-> request, handler |-> handlerType,
         snapshot |-> pipelineBehaviors, chain |-> chain, stack |-> <<>>,
         mode |-> "call", pos |-> 1, calls |-> [i \in 1..Len(chain) |-> 0],
         trace |-> <<>>, log |-> <<>>, outcome |-> <<>>]

\* A builder that already runs the outermost behavior while it composes
StartedInvokingOutermost(scope, request, handlerType) ==
    LET chain == applicableBehaviors(pipelineBehaviors, request, scope)
        entered == chain # <<>>
    IN
    [st |-> "running", kind |-> scope, request |-> request, handler |-> handlerType,
     snapshot |-> pipelineBehaviors, chain |-> chain,
     stack |-> IF entered THEN <<[idx |-> 1, calls |-> 0, got |-> <<>>]>> ELSE <<>>,
     mode |-> IF entered THEN "run" ELSE "call", pos |-> IF entered THEN 0 ELSE 1,
     calls |-> [i \in 1..Len(chain) |-> 0],
     trace |-> IF entered
                 THEN <<[ev |-> "enter", idx |-> 1, who |-> chain[1].type,
                         arg |-> request, settled |-> <<>>]>>
                 ELSE <<>>,
     log |-> <<>>, outcome |-> <<>>]

\* A dispatch that found a handler: the pipeline is built and its outermost
\* continuation is about to be called
Started(scope, request, handlerType) ==
    LET chain == applicableBehaviors(pipelineBehaviors, request, scope) IN
    [st |-> "running", kind |-> scope, request |-> request, handler |-> handlerType,
     snapshot |-> pipelineBehaviors, chain |-> chain, stack |-> <<>>,
     mode |-> "call", pos |-> 1, calls |-> [i \in 1..Len(chain) |-> 0],
     trace |-> <<>>, log |-> <<>>, outcome |-> <<>>]

\* A dispatch that found no handler and resolves all the same
NotFoundSilently(scope, request) ==
    [IdleDispatch EXCEPT !.st = "done", !.kind = scope, !.request = request,
        !.outcome = <<Resolved(Undefined)>>]

\* A dispatch that looks for its handler inside the pipeline only
NotFoundInsidePipeline(scope, request) == Started(scope, request, Undefined)

\* A dispatch that found no handler
NotFound(scope, request) ==
    [IdleDispatch EXCEPT !.st = "done", !.kind = scope, !.request = request,
        !.outcome = <<Rejected(HandlerNotFoundException(Name(request), scope))>>]

\* A send on a bus that keeps one pipeline at a time: the dispatches in flight
\* are dropped
sendExclusive(d, command) ==
    LET commandName == Name(command)
        handlerType == MapGet(commandHandlers, commandName)
    IN  /\ disp[d].st # "running"
        /\ disp' = [x \in DOMAIN disp |->
                IF x = d
                  THEN IF handlerType = Undefined
                         THEN NotFound("command", command)
                         ELSE Started("command", command, handlerType)
                ELSE IF disp[x].st = "running" THEN IdleDispatch
                ELSE disp[x]]
        /\ UNCHANGED <<commandHandlers, queryHandlers, pipelineBehaviors, thrown, regLog,
                   exceptionHandlers, performanceOptions, dynamicModule, exampleVars>>

\* send(command)
send(d, command) ==
    LET commandName == Name(command)
        handlerType == MapGet(commandHandlers, commandName)
    IN  /\ disp[d].st # "running"
        /\ disp' = [disp EXCEPT ![d] =
                IF handlerType = Undefined
                  THEN NotFound("command", command)
                  ELSE Started("command", command, handlerType)]
        /\ UNCHANGED <<commandHandlers, queryHandlers, pipelineBehaviors, thrown, regLog,
                   exceptionHandlers, performanceOptions, dynamicModule, exampleVars>>

\* query(query)
query(d, q) ==
    LET queryName == Name(q)
        handlerType == MapGet(queryHandlers, queryName)
    IN  /\ disp[d].st # "running"
        /\ disp' = [disp EXCEPT ![d] =
                IF handlerType = Undefined
                  THEN NotFound("query", q)
                  ELSE Started("query", q, handlerType)]
        /\ UNCHANGED <<commandHandlers, queryHandlers, pipelineBehaviors, thrown, regLog,
                   exceptionHandlers, performanceOptions, dynamicModule, exampleVars>>

----------------------------------------------------------------------------
(* The behaviors' handle methods *)

\* RetryBehavior.maxRetries
maxRetries == 3

\* RetryBehavior.isNonRetryableError: the error's name contains one of
\* 'Validation', 'NotFound', 'Unauthorized', 'Forbidden'
isNonRetryableError(error) ==
    error.name \in {"ValidationException", "NotFoundException",
                    "HandlerNotFoundException", "UnauthorizedException",
                    "ForbiddenException"}

\* What the behavior class `by` does that can be observed from outside the
\* chain: a line written through its Logger, or (levels "validated",
\* "measured", "canHandle", "handle") a value it computed or a call it made
LogData(by, level, message, data) ==
    [by |-> by, level |-> level, message |-> message, data |-> data]

LogEntry(by, level, message) == LogData(by, level, message, <<>>)

\* What an activation does next: it calls next(), returns or throws, having
\* written the lines `emits`
MoveWith(op, result, emits) == [op |-> op, result |-> result, emits |-> emits]

Move(op, result) == MoveWith(op, result, <<>>)

CallNext == Move("next", Resolved(Undefined))

\* What next() gave the activation f, when it has settled
Got(f) == f.got[1]

\* try { return await next() } catch (error) { ...; throw error }
\* (the shape of AuditLoggingBehavior)
WrapMoves(f) ==
    IF f.got = <<>> THEN {CallNext}
    ELSE IF Got(f).kind = "ok" THEN {Move("return", Got(f))}
    ELSE {Move("throw", Got(f))}

\* A logging that writes nothing when next() fails
LoggingMovesSilentOnError(f) ==
    IF f.got = <<>>
      THEN {MoveWith("next", Resolved(Undefined),
                     <<LogEntry("LoggingBehavior", "log", "Handling")>>)}
    ELSE IF Got(f).kind = "ok"
      THEN {MoveWith("return", Got(f),
                     <<LogEntry("LoggingBehavior", "log", "Handled successfully")>>)}
    ELSE {Move("throw", Got(f))}

\* LoggingBehavior.handle
LoggingMoves(f) ==
    IF f.got = <<>>
      THEN {MoveWith("next", Resolved(Undefined),
                     <<LogEntry("LoggingBehavior", "log", "Handling")>>)}
    ELSE IF Got(f).kind = "ok"
      THEN {MoveWith("return", Got(f),
                     <<LogEntry("LoggingBehavior", "log", "Handled successfully")>>)}
    ELSE {MoveWith("throw", Got(f),
                   <<LogEntry("LoggingBehavior", "error", "Failed")>>)}

\* new ValidationException(errors)
ValidationException(errors) == [Err("ValidationException") EXCEPT !.errors = errors]

\* What validateRequest(request) can give, by the properties in error: the
\* empty list for a valid request
ValidationResults == {<<>>, <<"email">>, <<"email", "name">>}

\* A validation that reports the first error only
ValidationMovesFirstOnly(f) ==
    IF f.got = <<>>
      THEN {IF errors = <<>>
              THEN MoveWith("next", Resolved(Undefined),
                            <<LogData("ValidationBehavior", "validated", "", errors)>>)
              ELSE MoveWith("throw", Rejected(ValidationException(<<errors[1]>>)),
                            <<LogData("ValidationBehavior", "validated", "", errors)>>)
            : errors \in ValidationResults}
    ELSE IF Got(f).kind = "ok" THEN {Move("return", Got(f))}
    ELSE {Move("throw", Got(f))}

\* ValidationBehavior.handle (the request is an object)
ValidationMoves(f) ==
    IF f.got = <<>>
      THEN {IF errors = <<>>
              THEN MoveWith("next", Resolved(Undefined),
                            <<LogData("ValidationBehavior", "validated", "", errors)>>)
              ELSE MoveWith("throw", Rejected(ValidationException(errors)),
                            <<LogData("ValidationBehavior", "validated", "", errors)>>)
            : errors \in ValidationResults}
    ELSE IF Got(f).kind = "ok" THEN {Move("return", Got(f))}
    ELSE {Move("throw", Got(f))}

\* IExceptionHandler.canHandle(error)
canHandle(handler, error) == error.name \in handler.accepts

\* IExceptionHandler.handle(error, request)
handleException(handler, error) == Err(handler.gives)

\* A loop that asks every handler and applies the last one that accepts
TryExceptionHandlersLast(handlers, i, error) ==
    LET accepting == {j \in i..Len(handlers) : canHandle(handlers[j], error)}
        asked == [j \in 1..(Len(handlers) + 1 - i) |->
                    LogEntry(handlers[i + j - 1].handler, "canHandle",
                             IF (i + j - 1) \in accepting THEN "true" ELSE "false")]
    IN  IF accepting = {} THEN [error |-> error, emits |-> asked]
        ELSE LET last == CHOOSE j \in accepting : \A k \in accepting : k <= j IN
             [error |-> handleException(handlers[last], error),
              emits |-> Append(asked, LogEntry(handlers[last].handler, "handle", ""))]

\* The loop of processException over exceptionHandlers, from the i-th on: the
\* error to throw and the calls made to the handlers
RECURSIVE TryExceptionHandlers(_, _, _)
TryExceptionHandlers(handlers, i, error) ==
    IF i > Len(handlers) THEN [error |-> error, emits |-> <<>>]
    ELSE IF canHandle(handlers[i], error)
      THEN [error |-> handleException(handlers[i], error),
            emits |-> <<LogEntry(handlers[i].handler, "canHandle", "true"),
                        LogEntry(handlers[i].handler, "handle", "")>>]
    ELSE LET rest == TryExceptionHandlers(handlers, i + 1, error) IN
         [error |-> rest.error,
          emits |-> <<LogEntry(handlers[i].handler, "canHandle", "false")>> \o rest.emits]

\* ExceptionHandlingBehavior.processException(error, request)
processException(error) ==
    LET tried == TryExceptionHandlers(exceptionHandlers, 1, error) IN
    [error |-> tried.error,
     emits |-> <<LogEntry("ExceptionHandlingBehavior", "error", "Exception in")>>
                  \o tried.emits]

\* An exception handling that logs the error and returns nothing
ExceptionHandlingMovesSwallowing(f) ==
    IF f.got = <<>> THEN {CallNext}
    ELSE IF Got(f).kind = "ok" THEN {Move("return", Got(f))}
    ELSE {MoveWith("return", Resolved(Undefined), processException(Got(f).error).emits)}

\* ExceptionHandlingBehavior.handle
ExceptionHandlingMoves(f) ==
    IF f.got = <<>> THEN {CallNext}
    ELSE IF Got(f).kind = "ok" THEN {Move("return", Got(f))}
    ELSE LET processed == processException(Got(f).error) IN
         {MoveWith("throw", Rejected(processed.error), processed.emits)}

\* options?.thresholdMs ?? 500
DefaultThresholdMs == 500

thresholdMs ==
    IF performanceOptions.thresholdMs = <<>> THEN DefaultThresholdMs
    ELSE performanceOptions.thresholdMs[1]

\* options?.logAllRequests ?? false
logAllRequests ==
    IF performanceOptions.logAllRequests = <<>> THEN FALSE
    ELSE performanceOptions.logAllRequests[1]

\* Math.round(performance.now() - startTime): the values around the thresholds
ElapsedTimes == {100, 101, 500, 501}

\* A finally block that also warns when the time measured equals the threshold
FinallySignalsAtThreshold(elapsed) ==
    <<LogData("PerformanceBehavior", "measured", "", <<elapsed>>)>> \o
    (IF elapsed >= thresholdMs
       THEN <<LogData("PerformanceBehavior", "warn", "SLOW REQUEST", <<elapsed, thresholdMs>>)>>
     ELSE IF logAllRequests
       THEN <<LogData("PerformanceBehavior", "debug", "completed in", <<elapsed>>)>>
     ELSE <<>>)

\* The finally block of PerformanceBehavior.handle, the time measured being
\* `elapsed`
FinallySignals(elapsed) ==
    <<LogData("PerformanceBehavior", "measured", "", <<elapsed>>)>> \o
    (IF elapsed > thresholdMs
       THEN <<LogData("PerformanceBehavior", "warn", "SLOW REQUEST", <<elapsed, thresholdMs>>)>>
     ELSE IF logAllRequests
       THEN <<LogData("PerformanceBehavior", "debug", "completed in", <<elapsed>>)>>
     ELSE <<>>)

\* PerformanceBehavior.handle: try { return await next() } finally { ... }
PerformanceMoves(f) ==
    IF f.got = <<>> THEN {CallNext}
    ELSE {MoveWith(IF Got(f).kind = "ok" THEN "return" ELSE "throw", Got(f),
                   FinallySignals(elapsed)) : elapsed \in ElapsedTimes}

\* RetryBehavior.handle: up to maxRetries attempts of next()
RetryMoves(f) ==
    IF f.got = <<>> THEN {CallNext}
    ELSE IF Got(f).kind = "ok" THEN {Move("return", Got(f))}
    ELSE IF isNonRetryableError(Got(f).error) THEN {Move("throw", Got(f))}
    ELSE IF f.calls < maxRetries THEN {CallNext}
    ELSE {Move("throw", Got(f))}

\* CachingBehavior.handle: a cache hit returns without next(); a miss returns
\* what next() gives
CachingMoves(f) ==
    IF f.got = <<>> THEN {Move("return", Resolved("cached")), CallNext}
    ELSE IF Got(f).kind = "ok" THEN {Move("return", Got(f))}
    ELSE {Move("throw", Got(f))}

\* CreateUserValidationBehavior.handle: throws when the request is invalid,
\* otherwise return next()
CreateUserValidationMoves(f) ==
    IF f.got = <<>> THEN {Move("throw", Rejected(Err("Error"))), CallNext}
    ELSE IF Got(f).kind = "ok" THEN {Move("return", Got(f))}
    ELSE {Move("throw", Got(f))}

\* Any implementation of IPipelineBehavior.handle that calls next() at most
\* once: it may refuse, answer itself, alter the result, replace or swallow
\* the error
CustomMoves(f) ==
    IF f.got = <<>>
      THEN {CallNext, Move("throw", Rejected(Err("ForbiddenException"))),
            Move("return", Resolved("custom"))}
    ELSE IF Got(f).kind = "ok"
      THEN {Move("return", Got(f)), Move("return", Resolved("custom"))}
    ELSE {Move("throw", Got(f)), Move("throw", Rejected(Err("CustomError"))),
          Move("return", Resolved("custom"))}

\* behavior.handle(request, next): what the activation f of a behavior of
\* class b can do next
Moves(b, f) ==
    CASE b = "RetryBehavior"                -> RetryMoves(f)
      [] b = "CachingBehavior"              -> CachingMoves(f)
      [] b = "CreateUserValidationBehavior" -> CreateUserValidationMoves(f)
      [] b = "CustomBehavior"               -> CustomMoves(f)
      [] b = "LoggingBehavior"              -> LoggingMoves(f)
      [] b = "ValidationBehavior"           -> ValidationMoves(f)
      [] b = "ExceptionHandlingBehavior"    -> ExceptionHandlingMoves(f)
      [] b = "PerformanceBehavior"          -> PerformanceMoves(f)
      [] OTHER                              -> WrapMoves(f)

\* handler.execute(request): the handler's value, or an error
HandlerOutcomes(handlerType) ==
    {Resolved(handlerType), Rejected(Err("Error"))}

----------------------------------------------------------------------------
(* Execution of the composed chain *)

\* A step of the chain: what happened, at which chain position, to which
\* class, with which request as argument, and with which settled result (<<>>
\* when a behavior is entered)
EventOn(request, ev, idx, who, settled) ==
    [ev |-> ev, idx |-> idx, who |-> who, arg |-> request, settled |-> settled]

Top(stack) == stack[Len(stack)]

Pop(stack) == SubSeq(stack, 1, Len(stack) - 1)

\* A caller that is given no value, by query as by send
CallerOutcomeVoid(scope, settled) ==
    IF settled.kind = "ok" THEN Resolved(Undefined) ELSE settled

\* A caller that is given an error of the bus in place of the pipeline's error
CallerOutcomeWrapped(scope, settled) ==
    IF settled.kind = "err" THEN Rejected(Err("InternalServerErrorException"))
    ELSE IF scope = "command" THEN Resolved(Undefined)
    ELSE settled

\* What send/query gives its caller when the pipeline has settled: send
\* awaits the pipeline and returns nothing, query returns the pipeline's promise
CallerOutcome(scope, settled) ==
    IF scope = "command" /\ settled.kind = "ok" THEN Resolved(Undefined) ELSE settled

\* A delivery in which an error bypasses the innermost open activation when
\* there is another one around it
DeliverPastInnermost(r, stack, settled, events) ==
    LET to == IF settled.kind = "err" /\ Len(stack) > 1 THEN Pop(stack) ELSE stack IN
    IF to = <<>>
      THEN [r EXCEPT !.st = "done", !.stack = <<>>, !.mode = "none", !.pos = 0,
                     !.trace = r.trace \o events,
                     !.outcome = <<CallerOutcome(r.kind, settled)>>]
      ELSE [r EXCEPT !.stack = [to EXCEPT ![Len(to)].got = <<settled>>],
                     !.mode = "run", !.pos = 0,
                     !.trace = r.trace \o events]

\* A delivery that is lost: nothing resumes and the caller is never answered
DeliverLost(r, stack, settled, events) ==
    [r EXCEPT !.mode = "none", !.pos = 0, !.trace = r.trace \o events]

\* A delivery that settles the dispatch at once, whatever activations are
\* still open
DeliverToCaller(r, stack, settled, events) ==
    [r EXCEPT !.st = "done", !.stack = <<>>, !.mode = "none", !.pos = 0,
              !.trace = r.trace \o events,
              !.outcome = <<CallerOutcome(r.kind, settled)>>]

\* A continuation settled with `settled`, `stack` being the activations that
\* are still open: the innermost of them resumes, or the dispatch is done
Deliver(r, stack, settled, events) ==
    IF stack = <<>>
      THEN [r EXCEPT !.st = "done", !.stack = <<>>, !.mode = "none", !.pos = 0,
                     !.trace = r.trace \o events,
                     !.outcome = <<CallerOutcome(r.kind, settled)>>]
      ELSE [r EXCEPT !.stack = [stack EXCEPT ![Len(stack)].got = <<settled>>],
                     !.mode = "run", !.pos = 0,
                     !.trace = r.trace \o events]

\* The composed closure of position pos runs: behavior.handle(request, next)
BehaviorEnter(d) ==
    LET r == disp[d] IN
    /\ r.st = "running" /\ r.mode = "call" /\ r.pos <= Len(r.chain)
    /\ disp' = [disp EXCEPT ![d] =
            [r EXCEPT !.stack = Append(r.stack, [idx |-> r.pos, calls |-> 0, got |-> <<>>]),
                      !.mode = "run", !.pos = 0,
                      !.trace = Append(r.trace, EventOn(r.request, "enter", r.pos, r.chain[r.pos].type, <<>>))]]
    /\ UNCHANGED <<commandHandlers, queryHandlers, pipelineBehaviors, thrown, regLog,
                   exceptionHandlers, performanceOptions, dynamicModule, exampleVars>>

\* The innermost continuation runs: handler.execute(request)
HandlerExecute(d) ==
    LET r == disp[d] IN
    /\ r.st = "running" /\ r.mode = "call" /\ r.pos = Len(r.chain) + 1
    /\ \E settled \in HandlerOutcomes(r.handler) :
         disp' = [disp EXCEPT ![d] =
            Deliver(r, r.stack, settled,
                    <<EventOn(r.request,
                              IF settled.kind = "ok" THEN "executed" ELSE "failed",
                              r.pos, r.handler, <<settled>>)>>)]
    /\ UNCHANGED <<commandHandlers, queryHandlers, pipelineBehaviors, thrown, regLog,
                   exceptionHandlers, performanceOptions, dynamicModule, exampleVars>>

\* The running behavior calls next()
BehaviorCallNext(d) ==
    LET r == disp[d]
        f == Top(r.stack)
    IN  /\ r.st = "running" /\ r.mode = "run"
        /\ \E m \in Moves(r.chain[f.idx].type, f) :
             /\ m.op = CallNext.op
             /\ disp' = [disp EXCEPT ![d] =
                    [r EXCEPT !.stack[Len(r.stack)].calls = f.calls + 1,
                              !.calls[f.idx] = r.calls[f.idx] + 1,
                              !.mode = "call", !.pos = f.idx + 1,
                              !.log = r.log \o m.emits]]
        /\ UNCHANGED <<commandHandlers, queryHandlers, pipelineBehaviors, thrown, regLog,
                   exceptionHandlers, performanceOptions, dynamicModule, exampleVars>>

\* The running behavior's handle returns
BehaviorReturn(d) ==
    LET r == disp[d]
        f == Top(r.stack)
        b == r.chain[f.idx].type
    IN  /\ r.st = "running" /\ r.mode = "run"
        /\ \E m \in Moves(b, f) :
             /\ m.op = "return"
             /\ disp' = [disp EXCEPT ![d] =
                    [Deliver(r, Pop(r.stack), m.result,
                             <<EventOn(r.request, "return", f.idx, b, <<m.result>>)>>)
                        EXCEPT !.log = r.log \o m.emits]]
        /\ UNCHANGED <<commandHandlers, queryHandlers, pipelineBehaviors, thrown, regLog,
                   exceptionHandlers, performanceOptions, dynamicModule, exampleVars>>

\* The running behavior's handle throws
BehaviorThrow(d) ==
    LET r == disp[d]
        f == Top(r.stack)
        b == r.chain[f.idx].type
    IN  /\ r.st = "running" /\ r.mode = "run"
        /\ \E m \in Moves(b, f) :
             /\ m.op = "throw"
             /\ disp' = [disp EXCEPT ![d] =
                    [Deliver(r, Pop(r.stack), m.result,
                             <<EventOn(r.request, "throw", f.idx, b, <<m.result>>)>>)
                        EXCEPT !.log = r.log \o m.emits]]
        /\ UNCHANGED <<commandHandlers, queryHandlers, pipelineBehaviors, thrown, regLog,
                   exceptionHandlers, performanceOptions, dynamicModule, exampleVars>>

----------------------------------------------------------------------------
(* The example application: its requests, behaviors and handlers *)

\* The requests the controller dispatches
ExampleRequestTypes ==
    {"CreateUserCommand", "DeleteUserCommand", "ProcessPaymentCommand", "GetUserQuery"}

\* The handler classes among the providers of AppModule
ExampleHandlerDecls ==
    { [handler |-> "CreateUserHandler",     request |-> "CreateUserCommand",     kind |-> "command"],
      [handler |-> "DeleteUserHandler",     request |-> "DeleteUserCommand",     kind |-> "command"],
      [handler |-> "ProcessPaymentHandler", request |-> "ProcessPaymentCommand", kind |-> "command"],
      [handler |-> "GetUserHandler",        request |-> "GetUserQuery",          kind |-> "query"] }

\* The behavior classes with a CachingBehavior that is not for queries only
ExampleBehaviorDeclsCachingForAll ==
    BuiltInBehaviorDecls \cup
    { [type |-> "RetryBehavior",                options |-> Options(<<-50>>, "command")],
      [type |-> "CachingBehavior",              options |-> Options(<<5>>,   "all")],
      [type |-> "AuthorizationBehavior",        options |-> Options(<<25>>,  "all")],
      [type |-> "AuditLoggingBehavior",         options |-> Options(<<50>>,  "command")],
      [type |-> "CreateUserValidationBehavior", options |-> Options(<<95>>,  "command")] }

\* The nine behavior classes of the example application: the four of the
\* library and the five of AppModule, with the options of their decorators
ExampleBehaviorDecls ==
    BuiltInBehaviorDecls \cup
    { [type |-> "RetryBehavior",                options |-> Options(<<-50>>, "command")],
      [type |-> "CachingBehavior",              options |-> Options(<<5>>,   "query")],
      [type |-> "AuthorizationBehavior",        options |-> Options(<<25>>,  "all")],
      [type |-> "AuditLoggingBehavior",         options |-> Options(<<50>>,  "command")],
      [type |-> "CreateUserValidationBehavior", options |-> Options(<<95>>,  "command")] }

\* What an activation does next and what it leaves in the cache and in the
\* audit log
Keeping(m) ==
    [op |-> m.op, result |-> m.result, emits |-> m.emits,
     cache |-> cache, auditLogs |-> auditLogs]

\* CachingBehavior.defaultTtlMs
defaultTtlMs == 30000

\* CachingBehavior.generateCacheKey: `${name}:${JSON.stringify(request)}`, the
\* instances of a request class carrying the same data
generateCacheKey(request) == <<Name(request), "{userId:1}">>

\* A cache that also keeps what a failed next() gave, and still serves an
\* entry at the instant it expires
CachingHandleKeepsFailures(f, request) ==
    LET cacheKey == generateCacheKey(request) IN
    IF f.got = <<>>
      THEN IF MapHas(cache, cacheKey) /\ cache[cacheKey].expiry >= now
             THEN {Keeping(MoveWith("return", Resolved(cache[cacheKey].data),
                                    <<LogEntry("CachingBehavior", "log", "CACHE HIT")>>))}
             ELSE {Keeping(MoveWith("next", Resolved(Undefined),
                                    <<LogEntry("CachingBehavior", "log", "CACHE MISS")>>))}
    ELSE {[Keeping(Move(IF Got(f).kind = "ok" THEN "return" ELSE "throw", Got(f))) EXCEPT
                !.cache = MapSet(cache, cacheKey,
                                 [data |-> Got(f).value, expiry |-> now + defaultTtlMs])]}

\* CachingBehavior.handle
CachingHandle(f, request) ==
    LET cacheKey == generateCacheKey(request) IN
    IF f.got = <<>>
      THEN IF MapHas(cache, cacheKey) /\ cache[cacheKey].expiry > now
             THEN {Keeping(MoveWith("return", Resolved(cache[cacheKey].data),
                                    <<LogEntry("CachingBehavior", "log", "CACHE HIT")>>))}
             ELSE {Keeping(MoveWith("next", Resolved(Undefined),
                                    <<LogEntry("CachingBehavior", "log", "CACHE MISS")>>))}
    ELSE IF Got(f).kind = "ok"
      THEN {[Keeping(Move("return", Got(f))) EXCEPT
                !.cache = MapSet(cache, cacheKey,
                                 [data |-> Got(f).value, expiry |-> now + defaultTtlMs])]}
    ELSE {Keeping(Move("throw", Got(f)))}

\* AuthorizationBehavior.adminOnlyRequests
adminOnlyRequests == {"DeleteUserCommand"}

\* AuthorizationService.isAuthenticated
isAuthenticated == currentUser # <<>>

\* AuthorizationService.hasRole(role)
hasRole(role) == currentUser # <<>> /\ role \in currentUser[1].roles

\* An authorization that asks for a logged-in user only
AuthorizationHandleAnyRole(f, request) ==
    IF f.got = <<>>
      THEN IF ~isAuthenticated
             THEN {Keeping(MoveWith("throw", Rejected(Err("UnauthorizedException")),
                      <<LogEntry("AuthorizationBehavior", "warn", "Unauthenticated")>>))}
           ELSE {Keeping(MoveWith("next", Resolved(Undefined),
                      <<LogData("AuthorizationBehavior", "log", "Authorized",
                                currentUser)>>))}
    ELSE IF Got(f).kind = "ok" THEN {Keeping(Move("return", Got(f)))}
    ELSE {Keeping(Move("throw", Got(f)))}

\* AuthorizationBehavior.handle
AuthorizationHandle(f, request) ==
    LET requestName == Name(request) IN
    IF f.got = <<>>
      THEN IF ~isAuthenticated
             THEN {Keeping(MoveWith("throw", Rejected(Err("UnauthorizedException")),
                      <<LogEntry("AuthorizationBehavior", "warn", "Unauthenticated")>>))}
           ELSE IF requestName \in adminOnlyRequests /\ ~hasRole("admin")
             THEN {Keeping(MoveWith("throw", Rejected(Err("ForbiddenException")),
                      <<LogEntry("AuthorizationBehavior", "warn", "Forbidden")>>))}
           ELSE {Keeping(MoveWith("next", Resolved(Undefined),
                      <<LogData("AuthorizationBehavior", "log", "Authorized",
                                currentUser)>>))}
    ELSE IF Got(f).kind = "ok" THEN {Keeping(Move("return", Got(f)))}
    ELSE {Keeping(Move("throw", Got(f)))}

\* The AuditLog entry of AuditLoggingBehavior for an action
AuditLog(action, request) ==
    [action |-> action, userId |-> "user-123", requestType |-> "command",
     requestName |-> Name(request)]

\* await this.auditService.logAction(entry): the entry is pushed; the
\* activation notes the place it has in the log
logAction(m, entry) ==
    [Keeping(m) EXCEPT
        !.auditLogs = Append(auditLogs, entry),
        !.emits = <<LogData("AuditLoggingBehavior", "logAction", entry.action,
                            <<Len(auditLogs) + 1>>)>>]

\* An audit that records a failure as completed
AuditLoggingHandleAlwaysCompleted(f, request) ==
    IF f.got = <<>> THEN {logAction(CallNext, AuditLog("Executing", request))}
    ELSE IF Got(f).kind = "ok"
      THEN {logAction(Move("return", Got(f)), AuditLog("Completed", request))}
    ELSE {logAction(Move("throw", Got(f)), AuditLog("Completed", request))}

\* AuditLoggingBehavior.handle
AuditLoggingHandle(f, request) ==
    IF f.got = <<>> THEN {logAction(CallNext, AuditLog("Executing", request))}
    ELSE IF Got(f).kind = "ok"
      THEN {logAction(Move("return", Got(f)), AuditLog("Completed", request))}
    ELSE {logAction(Move("throw", Got(f)), AuditLog("Failed", request))}

\* RetryBehavior.initialDelayMs
initialDelayMs == 100

\* RetryBehavior.calculateDelay(attempt)
calculateDelay(attempt) == initialDelayMs * 2 ^ (attempt - 1)

\* A retry that makes one attempt more and sleeps the same delay every time
RetryHandleOnceMore(f) ==
    IF f.got = <<>> THEN {CallNext}
    ELSE IF Got(f).kind = "ok" THEN {Move("return", Got(f))}
    ELSE IF isNonRetryableError(Got(f).error) THEN {Move("throw", Got(f))}
    ELSE IF f.calls <= maxRetries
      THEN {MoveWith("next", Resolved(Undefined),
                     <<LogData("RetryBehavior", "sleep", "Retrying in",
                               <<initialDelayMs>>)>>)}
    ELSE {MoveWith("throw", Got(f),
                   <<LogEntry("RetryBehavior", "error", "failed after")>>)}

\* RetryBehavior.handle, with the delays it sleeps: f.calls is the attempt
\* that has just failed
RetryHandle(f) ==
    IF f.got = <<>> THEN {CallNext}
    ELSE IF Got(f).kind = "ok" THEN {Move("return", Got(f))}
    ELSE IF isNonRetryableError(Got(f).error) THEN {Move("throw", Got(f))}
    ELSE IF f.calls < maxRetries
      THEN {MoveWith("next", Resolved(Undefined),
                     <<LogData("RetryBehavior", "sleep", "Retrying in",
                               <<calculateDelay(f.calls)>>)>>)}
    ELSE {MoveWith("throw", Got(f),
                   <<LogEntry("RetryBehavior", "error", "failed after")>>)}

\* ValidationBehavior.validateRequest: the error lists it may give
validateRequest ==
    IF ~validator.classValidatorAvailable THEN {<<>>}
    ELSE IF validator.raises THEN {<<>>}
    ELSE IF ~validator.hasMetadata THEN {<<>>}
    ELSE ValidationResults

\* A validation that lets the error of the library through
ValidationHandleFailingClosed(f) ==
    IF f.got = <<>>
      THEN IF ~validator.requestIsObject THEN {CallNext}
           ELSE IF validator.classValidatorAvailable /\ validator.raises
             THEN {Move("throw", Rejected(Err("Error")))}
           ELSE {IF errors = <<>>
                   THEN MoveWith("next", Resolved(Undefined),
                            <<LogData("ValidationBehavior", "validated", "", errors)>>)
                   ELSE MoveWith("throw", Rejected(ValidationException(errors)),
                            <<LogData("ValidationBehavior", "validated", "", errors)>>)
                 : errors \in validateRequest}
    ELSE IF Got(f).kind = "ok" THEN {Move("return", Got(f))}
    ELSE {Move("throw", Got(f))}

\* ValidationBehavior.handle
ValidationHandle(f) ==
    IF f.got = <<>>
      THEN IF ~validator.requestIsObject THEN {CallNext}
           ELSE {IF errors = <<>>
                   THEN MoveWith("next", Resolved(Undefined),
                            <<LogData("ValidationBehavior", "validated", "", errors)>>)
                   ELSE MoveWith("throw", Rejected(ValidationException(errors)),
                            <<LogData("ValidationBehavior", "validated", "", errors)>>)
                 : errors \in validateRequest}
    ELSE IF Got(f).kind = "ok" THEN {Move("return", Got(f))}
    ELSE {Move("throw", Got(f))}

\* behavior.handle(request, next) in the example application
ExampleMoves(b, f, request) ==
    CASE b = "CachingBehavior"       -> CachingHandle(f, request)
      [] b = "ValidationBehavior"    -> {Keeping(m) : m \in ValidationHandle(f)}
      [] b = "AuthorizationBehavior" -> AuthorizationHandle(f, request)
      [] b = "AuditLoggingBehavior"  -> AuditLoggingHandle(f, request)
      [] b = "RetryBehavior"         -> {Keeping(m) : m \in RetryHandle(f)}
      [] OTHER                       -> {Keeping(m) : m \in Moves(b, f)}

\* The order of the payments sent
orderId == "order-1"

\* ProcessPaymentHandler.execute with simulateFailure set: what it settles
\* with and what it leaves in the failure tracker
ProcessPaymentExecute ==
    LET currentFailures == IF MapHas(failureTracker, orderId)
                             THEN failureTracker[orderId] ELSE 0
    IN  IF currentFailures < failCount
          THEN [settled |-> Rejected(Err("Error")),
                failureTracker |-> MapSet(failureTracker, orderId, currentFailures + 1)]
          ELSE [settled |-> Resolved("ProcessPaymentHandler"),
                failureTracker |-> [o \in DOMAIN failureTracker \ {orderId} |->
                                        failureTracker[o]]]

\* handler.execute(request) in the example application: the other handlers
\* give their value
ExampleExecute(handlerType) ==
    IF handlerType = "ProcessPaymentHandler" THEN ProcessPaymentExecute
    ELSE [settled |-> Resolved(handlerType), failureTracker |-> failureTracker]

\* The innermost continuation runs: handler.execute(request)
ExampleHandlerExecute(d) ==
    LET r == disp[d]
        executed == ExampleExecute(r.handler)
    IN  /\ r.st = "running" /\ r.mode = "call" /\ r.pos = Len(r.chain) + 1
        /\ disp' = [disp EXCEPT ![d] =
              Deliver(r, r.stack, executed.settled,
                      <<EventOn(r.request,
                                IF executed.settled.kind = "ok" THEN "executed" ELSE "failed",
                                r.pos, r.handler, <<executed.settled>>)>>)]
        /\ failureTracker' = executed.failureTracker
        /\ UNCHANGED <<commandHandlers, queryHandlers, pipelineBehaviors, thrown, regLog,
                       exceptionHandlers, performanceOptions, dynamicModule,
                       cache, currentUser, auditLogs, now, failCount, validator>>

\* A next() that, called again, runs the handler alone
ExampleCallNextHandlerAlone(d) ==
    LET r == disp[d]
        f == Top(r.stack)
    IN  /\ r.st = "running" /\ r.mode = "run"
        /\ \E m \in ExampleMoves(r.chain[f.idx].type, f, r.request) :
             /\ m.op = CallNext.op
             /\ disp' = [disp EXCEPT ![d] =
                    [r EXCEPT !.stack[Len(r.stack)].calls = f.calls + 1,
                              !.calls[f.idx] = r.calls[f.idx] + 1,
                              !.mode = "call",
                              !.pos = IF f.calls = 0 THEN f.idx + 1 ELSE Len(r.chain) + 1,
                              !.log = r.log \o m.emits]]
             /\ cache' = m.cache /\ auditLogs' = m.auditLogs
        /\ UNCHANGED <<commandHandlers, queryHandlers, pipelineBehaviors, thrown, regLog,
                       exceptionHandlers, performanceOptions, dynamicModule,
                       failureTracker, currentUser, now, failCount, validator>>

\* The running behavior calls next()
ExampleCallNext(d) ==
    LET r == disp[d]
        f == Top(r.stack)
    IN  /\ r.st = "running" /\ r.mode = "run"
        /\ \E m \in ExampleMoves(r.chain[f.idx].type, f, r.request) :
             /\ m.op = CallNext.op
             /\ disp' = [disp EXCEPT ![d] =
                    [r EXCEPT !.stack[Len(r.stack)].calls = f.calls + 1,
                              !.calls[f.idx] = r.calls[f.idx] + 1,
                              !.mode = "call", !.pos = f.idx + 1,
                              !.log = r.log \o m.emits]]
             /\ cache' = m.cache /\ auditLogs' = m.auditLogs
        /\ UNCHANGED <<commandHandlers, queryHandlers, pipelineBehaviors, thrown, regLog,
                       exceptionHandlers, performanceOptions, dynamicModule,
                       failureTracker, currentUser, now, failCount, validator>>

\* The running behavior's handle returns
ExampleReturn(d) ==
    LET r == disp[d]
        f == Top(r.stack)
        b == r.chain[f.idx].type
    IN  /\ r.st = "running" /\ r.mode = "run"
        /\ \E m \in ExampleMoves(b, f, r.request) :
             /\ m.op = "return"
             /\ disp' = [disp EXCEPT ![d] =
                    [Deliver(r, Pop(r.stack), m.result,
                             <<EventOn(r.request, "return", f.idx, b, <<m.result>>)>>)
                        EXCEPT !.log = r.log \o m.emits]]
             /\ cache' = m.cache /\ auditLogs' = m.auditLogs
        /\ UNCHANGED <<commandHandlers, queryHandlers, pipelineBehaviors, thrown, regLog,
                       exceptionHandlers, performanceOptions, dynamicModule,
                       failureTracker, currentUser, now, failCount, validator>>

\* The running behavior's handle throws
ExampleThrow(d) ==
    LET r == disp[d]
        f == Top(r.stack)
        b == r.chain[f.idx].type
    IN  /\ r.st = "running" /\ r.mode = "run"
        /\ \E m \in ExampleMoves(b, f, r.request) :
             /\ m.op = "throw"
             /\ disp' = [disp EXCEPT ![d] =
                    [Deliver(r, Pop(r.stack), m.result,
                             <<EventOn(r.request, "throw", f.idx, b, <<m.result>>)>>)
                        EXCEPT !.log = r.log \o m.emits]]
             /\ cache' = m.cache /\ auditLogs' = m.auditLogs
        /\ UNCHANGED <<commandHandlers, queryHandlers, pipelineBehaviors, thrown, regLog,
                       exceptionHandlers, performanceOptions, dynamicModule,
                       failureTracker, currentUser, now, failCount, validator>>

\* AuthorizationService.currentUser as the class initialises it
DefaultUser == [id |-> "user-123", roles |-> {"user"}]

\* The users the controller's test endpoints set, null among them
Users ==
    {<<>>, <<DefaultUser>>, <<[id |-> "admin-1", roles |-> {"admin", "user"}]>>}

\* AuthorizationService.setUser(user)
setUser(user) ==
    /\ currentUser # user
    /\ currentUser' = user
    /\ UNCHANGED <<commandHandlers, queryHandlers, pipelineBehaviors, thrown, regLog, disp,
                   exceptionHandlers, performanceOptions, dynamicModule,
                   cache, failureTracker, auditLogs, now, failCount, validator>>

\* CachingBehavior.clearCache()
clearCache ==
    /\ cache # <<>>
    /\ cache' = <<>>
    /\ UNCHANGED <<commandHandlers, queryHandlers, pipelineBehaviors, thrown, regLog, disp,
                   exceptionHandlers, performanceOptions, dynamicModule,
                   failureTracker, currentUser, auditLogs, now, failCount, validator>>

----------------------------------------------------------------------------
(* MediatorBus without pipelines (the bus before behaviors were added) *)

\* registerCommandHandler(command, handler): the map and what is thrown
PlainRegisterCommandHandler(command, handler) ==
    LET commandName == Name(command) IN
    IF MapHas(commandHandlers, commandName)
      THEN [handlers |-> commandHandlers,
            thrown |-> [name |-> "Error",
                        message |-> <<"Command handler for", commandName,
                                      "is already registered">>]]
      ELSE [handlers |-> MapSet(commandHandlers, commandName, handler),
            thrown |-> NothingThrown]

\* registerQueryHandler(query, handler): the map and what is thrown
PlainRegisterQueryHandler(q, handler) ==
    LET queryName == Name(q) IN
    IF MapHas(queryHandlers, queryName)
      THEN [handlers |-> queryHandlers,
            thrown |-> [name |-> "Error",
                        message |-> <<"Query handler for", queryName,
                                      "is already registered">>]]
      ELSE [handlers |-> MapSet(queryHandlers, queryName, handler),
            thrown |-> NothingThrown]

\* new Error(`No handler registered for command: ${commandName}. ...`)
PlainNoHandler == Err("Error")

\* send / query up to the call of handler.execute: the dispatch is rejected
\* when no handler is registered, and is about to run the handler otherwise
PlainDispatch(scope, request, handlers) ==
    LET handlerType == MapGet(handlers, Name(request)) IN
    IF handlerType = Undefined
      THEN [IdleDispatch EXCEPT !.st = "done", !.kind = scope, !.request = request,
                                !.outcome = <<Rejected(PlainNoHandler)>>]
      ELSE [IdleDispatch EXCEPT !.st = "running", !.kind = scope, !.request = request,
                                !.handler = handlerType, !.mode = "call", !.pos = 1]

PlainSend(command) == PlainDispatch("command", command, commandHandlers)

PlainQuery(q) == PlainDispatch("query", q, queryHandlers)

\* await handler.execute(command) in send, return handler.execute(query) in
\* query: the handler has settled
PlainExecute(r, settled) ==
    [r EXCEPT !.st = "done", !.mode = "none", !.pos = 0,
              !.trace = <<EventOn(r.request,
                                  IF settled.kind = "ok" THEN "executed" ELSE "failed",
                                  1, r.handler, <<settled>>)>>,
              !.outcome = <<IF r.kind = "command" /\ settled.kind = "ok"
                              THEN Resolved(Undefined) ELSE settled>>]

----------------------------------------------------------------------------
(* Specification *)

\* PerformanceBehaviorOptions; a field is <<>> when missing. No options are
\* provided unless the application binds PERFORMANCE_BEHAVIOR_OPTIONS.
PerformanceBehaviorOptions(threshold, logAll) ==
    [thresholdMs |-> threshold, logAllRequests |-> logAll]

NoPerformanceOptions == PerformanceBehaviorOptions(<<>>, <<>>)

\* What ValidationBehavior.handle meets: whether the request is an object,
\* whether class-validator can be imported, whether the class of the request
\* has validation metadata, and whether the library raises
ValidationStates ==
    [requestIsObject : BOOLEAN, classValidatorAvailable : BOOLEAN,
     hasMetadata : BOOLEAN, raises : BOOLEAN]

\* A request object of a decorated class, with class-validator installed
DefaultValidation ==
    [requestIsObject |-> TRUE, classValidatorAvailable |-> TRUE,
     hasMetadata |-> TRUE, raises |-> FALSE]

\* failCount: number = 2 in the constructor of ProcessPaymentCommand
DefaultFailCount == 2

\* The example application when it starts: empty cache, failure tracker and
\* audit log, the default user
ExampleInit ==
    /\ cache = <<>>
    /\ failureTracker = <<>>
    /\ currentUser = <<DefaultUser>>
    /\ auditLogs = <<>>
    /\ now = 0
    /\ failCount = DefaultFailCount
    /\ validator = DefaultValidation

\* NestMediatorModuleOptions; a field is <<>> when missing
NestMediatorModuleOptions(exceptions, logging, performance, validation, behaviors) ==
    [enableExceptionHandling |-> exceptions, enableLogging |-> logging,
     enablePerformanceTracking |-> performance, enableValidation |-> validation,
     behaviors |-> behaviors]

\* {}
NoModuleOptions == NestMediatorModuleOptions(<<>>, <<>>, <<>>, <<>>, <<>>)

\* if (options.enableX): the flag is there and true
Enabled(flag) == flag = <<TRUE>>

\* A module that provides the logging behavior whatever the options say
forRootAsyncLoggingOn(options) ==
    [providers |-> <<"MediatorBus", "Reflector", "LoggingBehavior">>
                   \o (IF Enabled(options.enableValidation)
                         THEN <<"ValidationBehavior">> ELSE <<>>),
     options |-> options]

\* NestMediatorModule.forRootAsync(options): the providers of the dynamic
\* module, and the options bound to NEST_MEDIATOR_OPTIONS
forRootAsync(options) ==
    LET builtInProviders ==
            (IF Enabled(options.enableExceptionHandling)
               THEN <<"ExceptionHandlingBehavior">> ELSE <<>>)
            \o (IF Enabled(options.enableLogging) THEN <<"LoggingBehavior">> ELSE <<>>)
            \o (IF Enabled(options.enablePerformanceTracking)
                  THEN <<"PerformanceBehavior">> ELSE <<>>)
            \o (IF Enabled(options.enableValidation) THEN <<"ValidationBehavior">> ELSE <<>>)
        customBehaviors == IF options.behaviors = <<>> THEN <<>> ELSE options.behaviors[1]
    IN  [providers |-> <<"MediatorBus", "Reflector">> \o builtInProviders \o customBehaviors,
         options |-> options]

\* NestMediatorModule.forRoot(): takes no options
forRoot == forRootAsync(NoModuleOptions)

Init ==
    /\ commandHandlers = <<>>
    /\ queryHandlers = <<>>
    /\ pipelineBehaviors = <<>>
    /\ thrown = NothingThrown
    /\ regLog = <<>>
    /\ disp = [d \in DispatchIds |-> IdleDispatch]
    /\ exceptionHandlers = <<>>
    /\ performanceOptions = NoPerformanceOptions
    /\ dynamicModule = forRoot
    /\ ExampleInit

\* The handler classes of the application whose pipelines are explored
CoreHandlerDecls ==
    {h \in HandlerDecls :
        h.handler \in {"CreateUserHandler", "ProcessPaymentHandler", "GetUserHandler"}}

\* The behavior classes registered beside the full set of handler classes
CoreBehaviorDecls ==
    {b \in BehaviorDecls : b.type \in {"LoggingBehavior", "CreateUserValidationBehavior"}}

\* onModuleInit registers what it discovers before the application serves a
\* request: no send or query has been called yet
Startup == \A d \in DOMAIN disp : disp[d].st = "idle"

\* onModuleInit meets each provider class once: the behavior classes that
\* have not been registered yet
Undiscovered(pool) ==
    {b \in pool : \A i \in 1..Len(regLog) : regLog[i].type # b.type}

\* onModuleInit has registered every handler class of the application
Discovered ==
    \A h \in CoreHandlerDecls :
        MapGet(IF h.kind = "command" THEN commandHandlers ELSE queryHandlers,
               Name(h.request)) = h.handler

RegisterCommandHandler(pool) ==
    \E h \in pool : h.kind = "command" /\ registerCommandHandler(h.request, h.handler)

RegisterQueryHandler(pool) ==
    \E h \in pool : h.kind = "query" /\ registerQueryHandler(h.request, h.handler)

RegisterPipelineBehavior(pool) ==
    \E b \in pool : registerPipelineBehavior(b.type, b.options)

Send == \E d \in DispatchIds, t \in RequestTypes : send(d, t)

Query == \E d \in DispatchIds, t \in RequestTypes : query(d, t)

\* The chain of the dispatch d goes on by one step
StepOf(d) ==
    \/ BehaviorEnter(d)
    \/ HandlerExecute(d)
    \/ BehaviorCallNext(d)
    \/ BehaviorReturn(d)
    \/ BehaviorThrow(d)

Step ==
    \E d \in DispatchIds :
        \/ BehaviorEnter(d)
        \/ HandlerExecute(d)
        \/ BehaviorCallNext(d)
        \/ BehaviorReturn(d)
        \/ BehaviorThrow(d)

\* The application: registration at startup, then dispatches once every
\* handler class is registered
Next ==
    \/ Startup /\ RegisterCommandHandler(CoreHandlerDecls)
    \/ Startup /\ RegisterQueryHandler(CoreHandlerDecls)
    \/ Startup /\ RegisterPipelineBehavior(Undiscovered(BehaviorDecls))
    \/ Discovered /\ Send
    \/ Discovered /\ Query
    \/ Step

\* The registration API called at any time, with every handler class
NextHandlers ==
    \/ RegisterCommandHandler(HandlerDecls)
    \/ RegisterQueryHandler(HandlerDecls)
    \/ RegisterPipelineBehavior(Undiscovered(CoreBehaviorDecls))
    \/ Send
    \/ Query
    \/ Step

SpecHandlers == Init /\ [][NextHandlers]_vars

\* An application with one command handler and one query handler
BuiltInHandlerDecls ==
    {h \in HandlerDecls : h.handler \in {"CreateUserHandler", "GetUserHandler"}}

ExceptionBehaviorDecls ==
    {b \in BuiltInBehaviorDecls : b.type # "PerformanceBehavior"}

PerformanceBehaviorDecls ==
    {b \in BuiltInBehaviorDecls : b.type # "ExceptionHandlingBehavior"}

\* The application registers each exception handler once
RegisterExceptionHandler ==
    \E h \in ExceptionHandlerDecls :
        /\ \A i \in DOMAIN exceptionHandlers : exceptionHandlers[i] # h
        /\ registerExceptionHandler(h)

\* An application with the exception handling, logging and validation
\* behaviors of the library, and exception handlers
NextExceptions ==
    \/ Startup /\ RegisterCommandHandler(BuiltInHandlerDecls)
    \/ Startup /\ RegisterQueryHandler(BuiltInHandlerDecls)
    \/ Startup /\ RegisterPipelineBehavior(Undiscovered(ExceptionBehaviorDecls))
    \/ Startup /\ RegisterExceptionHandler
    \/ Send
    \/ Query
    \/ Step

SpecExceptions == Init /\ [][NextExceptions]_vars

\* The options an application may bind to PERFORMANCE_BEHAVIOR_OPTIONS
PerformanceOptionChoices ==
    {PerformanceBehaviorOptions(t, l) : t \in {<<>>, <<100>>}, l \in {<<>>, <<TRUE>>}}

InitPerformance ==
    /\ commandHandlers = <<>>
    /\ queryHandlers = <<>>
    /\ pipelineBehaviors = <<>>
    /\ thrown = NothingThrown
    /\ regLog = <<>>
    /\ disp = [d \in DispatchIds |-> IdleDispatch]
    /\ exceptionHandlers = <<>>
    /\ performanceOptions \in PerformanceOptionChoices
    /\ dynamicModule = forRoot
    /\ ExampleInit

\* An application with the performance, logging and validation behaviors of
\* the library
NextPerformance ==
    \/ Startup /\ RegisterCommandHandler(BuiltInHandlerDecls)
    \/ Startup /\ RegisterQueryHandler(BuiltInHandlerDecls)
    \/ Startup /\ RegisterPipelineBehavior(Undiscovered(PerformanceBehaviorDecls))
    \/ Send
    \/ Query
    \/ Step

SpecPerformance == InitPerformance /\ [][NextPerformance]_vars

\* An application whose behaviors can answer without calling next(): the
\* cache of CachingBehavior, and a behavior of the application's own
ShortCircuitBehaviorDecls ==
    {b \in BehaviorDecls :
        b.type \in {"LoggingBehavior", "CachingBehavior", "CustomBehavior"}}

NextShortCircuit ==
    \/ Startup /\ RegisterCommandHandler(BuiltInHandlerDecls)
    \/ Startup /\ RegisterQueryHandler(BuiltInHandlerDecls)
    \/ Startup /\ RegisterPipelineBehavior(Undiscovered(ShortCircuitBehaviorDecls))
    \/ Send
    \/ Query
    \/ Step

\* Every promise of the chain settles and its continuation is run: a step of
\* a running dispatch that stays possible is taken
SpecShortCircuit == Init /\ [][NextShortCircuit]_vars /\ WF_vars(Step)

\* Two dispatches that may be in flight together
ConcurrentDispatchIds == {"d1", "d2"}

\* The requests the concurrent callers dispatch
ConcurrentRequestTypes == {"CreateUserCommand", "GetUserQuery@admin"}

InitConcurrent ==
    /\ commandHandlers = <<>>
    /\ queryHandlers = <<>>
    /\ pipelineBehaviors = <<>>
    /\ thrown = NothingThrown
    /\ regLog = <<>>
    /\ disp = [d \in ConcurrentDispatchIds |-> IdleDispatch]
    /\ exceptionHandlers = <<>>
    /\ performanceOptions = NoPerformanceOptions
    /\ dynamicModule = forRoot
    /\ ExampleInit

\* The behavior classes registered while the concurrent callers dispatch
ConcurrentBehaviorDecls ==
    {b \in BehaviorDecls :
        b.type \in {"LoggingBehavior", "CachingBehavior", "CreateUserValidationBehavior"}}

\* An application that registers its handlers at startup and behaviors at any
\* time, and whose callers do not wait for one another
NextConcurrent ==
    \/ Startup /\ RegisterCommandHandler(BuiltInHandlerDecls)
    \/ Startup /\ RegisterQueryHandler(BuiltInHandlerDecls)
    \/ RegisterPipelineBehavior(Undiscovered(ConcurrentBehaviorDecls))
    \/ \E d \in ConcurrentDispatchIds, t \in ConcurrentRequestTypes : send(d, t)
    \/ \E d \in ConcurrentDispatchIds, t \in ConcurrentRequestTypes : query(d, t)
    \/ \E d \in ConcurrentDispatchIds : StepOf(d)

\* Every promise of a chain settles and its continuation is run, whatever the
\* other dispatch does
SpecConcurrent ==
    InitConcurrent /\ [][NextConcurrent]_vars
        /\ \A d \in ConcurrentDispatchIds : WF_vars(StepOf(d))

\* The options an application may pass to forRootAsync
ModuleOptionChoices ==
    {NestMediatorModuleOptions(e, l, p, v, b) :
        e \in {<<>>, <<TRUE>>}, l \in {<<>>, <<FALSE>>, <<TRUE>>},
        p \in {<<>>, <<TRUE>>}, v \in {<<>>, <<TRUE>>},
        b \in {<<>>, << <<"CustomBehavior">> >>, << <<"LoggingBehavior">> >>}}

InitModule ==
    /\ commandHandlers = <<>>
    /\ queryHandlers = <<>>
    /\ pipelineBehaviors = <<>>
    /\ thrown = NothingThrown
    /\ regLog = <<>>
    /\ disp = [d \in DispatchIds |-> IdleDispatch]
    /\ exceptionHandlers = <<>>
    /\ performanceOptions = NoPerformanceOptions
    /\ dynamicModule \in {forRoot} \cup {forRootAsync(o) : o \in ModuleOptionChoices}
    /\ ExampleInit

\* The providers of the dynamic module that carry pipeline behavior metadata
ProvidedBehaviorDecls ==
    {b \in BehaviorDecls \cup BuiltInBehaviorDecls :
        \E i \in DOMAIN dynamicModule.providers : dynamicModule.providers[i] = b.type}

\* onModuleInit over the handlers of the application and the providers of the
\* dynamic module
NextModule ==
    \/ RegisterCommandHandler(BuiltInHandlerDecls)
    \/ RegisterQueryHandler(BuiltInHandlerDecls)
    \/ RegisterPipelineBehavior(Undiscovered(ProvidedBehaviorDecls))

SpecModule == InitModule /\ [][NextModule]_vars

\* The chain of the dispatch d of the example application goes on by one step
ExampleStepOf(d) ==
    \/ BehaviorEnter(d)
    \/ ExampleHandlerExecute(d)
    \/ ExampleCallNext(d)
    \/ ExampleReturn(d)
    \/ ExampleThrow(d)

ExampleStep == \E d \in DispatchIds : ExampleStepOf(d)

\* The payments fail at most this many times before they succeed
MaxFailCount == 3

\* The example application with payments that fail failCount times
InitRetry ==
    /\ commandHandlers = <<>>
    /\ queryHandlers = <<>>
    /\ pipelineBehaviors = <<>>
    /\ thrown = NothingThrown
    /\ regLog = <<>>
    /\ disp = [d \in DispatchIds |-> IdleDispatch]
    /\ exceptionHandlers = <<>>
    /\ performanceOptions = NoPerformanceOptions
    /\ dynamicModule = forRoot
    /\ cache = <<>>
    /\ failureTracker = <<>>
    /\ currentUser = <<DefaultUser>>
    /\ auditLogs = <<>>
    /\ now = 0
    /\ failCount \in 0..MaxFailCount
    /\ validator = DefaultValidation

\* The commands that are retried and their handlers
RetryRequestTypes == {"ProcessPaymentCommand", "CreateUserCommand"}

RetryHandlerDecls == {h \in ExampleHandlerDecls : h.request \in RetryRequestTypes}

\* RetryBehavior around behaviors that pass, that validate and that fail
RetryBehaviorDecls ==
    {b \in ExampleBehaviorDecls :
        b.type \in {"ExceptionHandlingBehavior", "RetryBehavior", "LoggingBehavior",
                    "ValidationBehavior", "CreateUserValidationBehavior"}}

NextRetry ==
    \/ Startup /\ RegisterCommandHandler(RetryHandlerDecls)
    \/ Startup /\ RegisterPipelineBehavior(Undiscovered(RetryBehaviorDecls))
    \/ \E d \in DispatchIds, t \in RetryRequestTypes : send(d, t)
    \/ ExampleStep

SpecRetry == InitRetry /\ [][NextRetry]_vars

\* The clock is read at most this many half lifetimes of a cache entry after
\* the application started
MaxTicks == 3

\* Date.now() has advanced by half the lifetime of a cache entry
Tick ==
    /\ now < MaxTicks * (defaultTtlMs \div 2)
    /\ now' = now + defaultTtlMs \div 2
    /\ UNCHANGED <<commandHandlers, queryHandlers, pipelineBehaviors, thrown, regLog, disp,
                   exceptionHandlers, performanceOptions, dynamicModule,
                   cache, failureTracker, currentUser, auditLogs, failCount, validator>>

SetUser == \E user \in Users : setUser(user)

\* The query that is cached and its handler
CachingRequestTypes == {"GetUserQuery"}

CachingHandlerDecls == {h \in ExampleHandlerDecls : h.request \in CachingRequestTypes}

\* CachingBehavior with a behavior outside it and one inside it that fails
\* when no user is logged in
CachingBehaviorDecls ==
    {b \in ExampleBehaviorDecls :
        b.type \in {"ExceptionHandlingBehavior", "CachingBehavior", "AuthorizationBehavior"}}

\* The example application serving queries while the clock advances, users
\* log in and out and the cache is cleared
NextCaching ==
    \/ Startup /\ RegisterQueryHandler(CachingHandlerDecls)
    \/ Startup /\ RegisterPipelineBehavior(Undiscovered(CachingBehaviorDecls))
    \/ \E d \in DispatchIds, t \in CachingRequestTypes : query(d, t)
    \/ ExampleStep
    \/ SetUser
    \/ clearCache
    \/ Tick

SpecCaching == Init /\ [][NextCaching]_vars

\* Two callers of the example application that may be in flight together;
\* the clock stands still and the cache is not cleared, so that no cache entry
\* expires or is removed
NextCachingConcurrent ==
    \/ Startup /\ RegisterQueryHandler(CachingHandlerDecls)
    \/ Startup /\ RegisterPipelineBehavior(Undiscovered(CachingBehaviorDecls))
    \/ \E d \in ConcurrentDispatchIds, t \in CachingRequestTypes : query(d, t)
    \/ \E d \in ConcurrentDispatchIds : ExampleStepOf(d)
    \/ SetUser

SpecCachingConcurrent == InitConcurrent /\ [][NextCachingConcurrent]_vars

\* The requests that are authorised and their handlers
AuthorizationRequestTypes == {"DeleteUserCommand", "GetUserQuery"}

AuthorizationHandlerDecls ==
    {h \in ExampleHandlerDecls : h.request \in AuthorizationRequestTypes}

\* AuthorizationBehavior with behaviors outside it
AuthorizationBehaviorDecls ==
    {b \in ExampleBehaviorDecls :
        b.type \in {"RetryBehavior", "LoggingBehavior", "AuthorizationBehavior"}}

\* Two callers of the example application while users log in and out
NextAuthorization ==
    \/ Startup /\ RegisterCommandHandler(AuthorizationHandlerDecls)
    \/ Startup /\ RegisterQueryHandler(AuthorizationHandlerDecls)
    \/ Startup /\ RegisterPipelineBehavior(Undiscovered(AuthorizationBehaviorDecls))
    \/ \E d \in ConcurrentDispatchIds, t \in AuthorizationRequestTypes : send(d, t)
    \/ \E d \in ConcurrentDispatchIds, t \in AuthorizationRequestTypes : query(d, t)
    \/ \E d \in ConcurrentDispatchIds : ExampleStepOf(d)
    \/ SetUser

SpecAuthorization == InitConcurrent /\ [][NextAuthorization]_vars

\* The audit entries after which no further request is sent
MaxAuditLogs == 1

\* The requests sent while the audit log is written
AuditRequestTypes == {"CreateUserCommand", "ProcessPaymentCommand", "GetUserQuery"}

AuditHandlerDecls ==
    {h \in ExampleHandlerDecls : h.request \in AuditRequestTypes}

\* The behavior class of the example application of the given name
DeclOf(type) == CHOOSE b \in ExampleBehaviorDecls : b.type = type

\* The handler Map onModuleInit leaves for the handlers of pool
HandlersOf(pool, kind) ==
    [n \in {Name(h.request) : h \in {x \in pool : x.kind = kind}} |->
        (CHOOSE h \in pool : h.kind = kind /\ Name(h.request) = n).handler]

\* The application after onModuleInit has registered the handlers of pool and
\* met the behavior classes in the order of discovery, with callers ids
Bootstrapped(ids, pool, discovery) ==
    /\ commandHandlers = HandlersOf(pool, "command")
    /\ queryHandlers = HandlersOf(pool, "query")
    /\ pipelineBehaviors = Replay(discovery)
    /\ thrown = NothingThrown
    /\ regLog = discovery
    /\ disp = [d \in ids |-> IdleDispatch]
    /\ exceptionHandlers = <<>>
    /\ performanceOptions = NoPerformanceOptions
    /\ dynamicModule = forRoot
    /\ ExampleInit

InitAudit ==
    \E discovery \in {<<DeclOf("RetryBehavior"), DeclOf("AuditLoggingBehavior"),
                         DeclOf("CreateUserValidationBehavior")>>,
                       <<DeclOf("CreateUserValidationBehavior"),
                         DeclOf("AuditLoggingBehavior"), DeclOf("RetryBehavior")>>} :
        Bootstrapped(ConcurrentDispatchIds, AuditHandlerDecls, discovery)

\* Two callers of the example application whose commands are audited
NextAudit ==
    \/ /\ Len(auditLogs) < MaxAuditLogs
       /\ \E d \in ConcurrentDispatchIds, t \in AuditRequestTypes : send(d, t)
    \/ /\ Len(auditLogs) < MaxAuditLogs
       /\ \E d \in ConcurrentDispatchIds, t \in AuditRequestTypes : query(d, t)
    \/ \E d \in ConcurrentDispatchIds : ExampleStepOf(d)

SpecAudit == InitAudit /\ [][NextAudit]_vars

\* The order in which AppModule lists its behaviors after the built-in ones
DeclaredOrder ==
    <<DeclOf("ExceptionHandlingBehavior"), DeclOf("LoggingBehavior"),
      DeclOf("PerformanceBehavior"), DeclOf("ValidationBehavior"),
      DeclOf("AuditLoggingBehavior"), DeclOf("CachingBehavior"),
      DeclOf("RetryBehavior"), DeclOf("AuthorizationBehavior"),
      DeclOf("CreateUserValidationBehavior")>>

Reversed(s) == [i \in DOMAIN s |-> s[Len(s) + 1 - i]]

Rotated(s, k) == [i \in DOMAIN s |-> s[((i + k - 1) % Len(s)) + 1]]

\* Orders in which onModuleInit may meet the nine behavior classes
DiscoveryOrders ==
    {DeclaredOrder, Reversed(DeclaredOrder), Rotated(DeclaredOrder, 4),
     Reversed(Rotated(DeclaredOrder, 7))}

\* The requests of the user endpoints
UserRequestTypes == {"CreateUserCommand", "GetUserQuery"}

UserHandlerDecls == {h \in ExampleHandlerDecls : h.request \in UserRequestTypes}

\* The example application with all nine behaviors registered
InitExample ==
    \E discovery \in DiscoveryOrders :
        Bootstrapped(DispatchIds, UserHandlerDecls, discovery)

NextExample ==
    \/ /\ Len(auditLogs) < MaxAuditLogs
       /\ \E d \in DispatchIds, t \in UserRequestTypes : send(d, t)
    \/ \E d \in DispatchIds, t \in UserRequestTypes : query(d, t)
    \/ ExampleStep

SpecExample == InitExample /\ [][NextExample]_vars

\* The behaviors that would catch or retry a failure
NotFoundBehaviorDecls ==
    {b \in ExampleBehaviorDecls :
        b.type \in {"ExceptionHandlingBehavior", "RetryBehavior", "LoggingBehavior"}}

\* The example application with handlers that may not have been registered
NextNotFound ==
    \/ Startup /\ RegisterCommandHandler(ExampleHandlerDecls)
    \/ Startup /\ RegisterQueryHandler(ExampleHandlerDecls)
    \/ Startup /\ RegisterPipelineBehavior(Undiscovered(NotFoundBehaviorDecls))
    \/ \E d \in DispatchIds, t \in ExampleRequestTypes : send(d, t)
    \/ \E d \in DispatchIds, t \in ExampleRequestTypes : query(d, t)
    \/ ExampleStep

SpecNotFound == Init /\ [][NextNotFound]_vars

\* Behavior classes that are providers of more than one module
RepeatedBehaviorDecls ==
    {b \in BuiltInBehaviorDecls : b.type \in {"LoggingBehavior", "ValidationBehavior"}}

\* onModuleInit meets a provider for each module that lists the class, and
\* the registration API may be called with a class again
NextRepeated ==
    \/ Startup /\ RegisterCommandHandler(CoreHandlerDecls)
    \/ Startup /\ RegisterQueryHandler(CoreHandlerDecls)
    \/ Startup /\ RegisterPipelineBehavior(RepeatedBehaviorDecls)
    \/ Send
    \/ Query
    \/ Step

SpecRepeated == Init /\ [][NextRepeated]_vars

\* The bus with ValidationBehavior, for every request and library it may meet
InitValidation ==
    /\ commandHandlers = <<>>
    /\ queryHandlers = <<>>
    /\ pipelineBehaviors = <<>>
    /\ thrown = NothingThrown
    /\ regLog = <<>>
    /\ disp = [d \in DispatchIds |-> IdleDispatch]
    /\ exceptionHandlers = <<>>
    /\ performanceOptions = NoPerformanceOptions
    /\ dynamicModule = forRoot
    /\ cache = <<>>
    /\ failureTracker = <<>>
    /\ currentUser = <<DefaultUser>>
    /\ auditLogs = <<>>
    /\ now = 0
    /\ failCount = DefaultFailCount
    /\ validator \in ValidationStates

\* ValidationBehavior inside LoggingBehavior
ValidationBehaviorDecls ==
    {b \in ExampleBehaviorDecls : b.type \in {"LoggingBehavior", "ValidationBehavior"}}

NextValidation ==
    \/ Startup /\ RegisterCommandHandler(ExampleHandlerDecls)
    \/ Startup /\ RegisterQueryHandler(ExampleHandlerDecls)
    \/ Startup /\ RegisterPipelineBehavior(Undiscovered(ValidationBehaviorDecls))
    \/ \E d \in DispatchIds, t \in ExampleRequestTypes : send(d, t)
    \/ \E d \in DispatchIds, t \in ExampleRequestTypes : query(d, t)
    \/ ExampleStep

SpecValidation == InitValidation /\ [][NextValidation]_vars

\* The bus with pipelines on which no behavior is ever registered: every
\* chain is the handler alone
NextNoBehaviors ==
    \/ RegisterCommandHandler(HandlerDecls)
    \/ RegisterQueryHandler(HandlerDecls)
    \/ Send
    \/ Query
    \/ \E d \in DispatchIds : HandlerExecute(d)

SpecNoBehaviors == Init /\ [][NextNoBehaviors]_vars

Spec == Init /\ [][Next]_vars

----------------------------------------------------------------------------
(* Vocabulary of the properties *)

Range(s) == {s[i] : i \in DOMAIN s}

\* A dispatch whose handler was found, so that a pipeline was built for it
Built(r) == r.st # "idle" /\ r.handler # Undefined

\* The scope option admits a dispatch of this kind ("all" when missing)
InScope(rb, kind) == rb.options.scope \in {"all", Undefined, kind}

\* The request class opts out of the behavior
Skipped(rb, request) == rb.type \in SkipBehaviorsOf(request)

\* The behavior declares no target type, or it is the request's class
TargetMatches(rb, request) == HandleParamType(rb.type) \in {Undefined, request}

PairwiseDistinctPriorities(s) ==
    \A i, j \in DOMAIN s : i # j => PriorityOf(s[i]) # PriorityOf(s[j])

\* The i-th behavior of s in ascending priority, priorities being distinct
Ranked(s, i) ==
    CHOOSE x \in Range(s) :
        Cardinality({y \in Range(s) : PriorityOf(y) < PriorityOf(x)}) = i - 1

IsEnter(e) == e.ev = "enter"
IsExit(e) == e.ev \in {"return", "throw"}
IsHandlerEvent(e) == e.ev \in {"executed", "failed"}
IsFailure(e) == e.ev \in {"throw", "failed"}

\* The chain positions of the behaviors entered and not yet exited after the
\* first j events of a trace, outermost first
RECURSIVE OpenAfter(_, _)
OpenAfter(t, j) ==
    IF j = 0 THEN <<>>
    ELSE LET before == OpenAfter(t, j - 1) IN
         IF IsEnter(t[j]) THEN Append(before, t[j].idx)
         ELSE IF IsExit(t[j]) THEN SubSeq(before, 1, Len(before) - 1)
         ELSE before

----------------------------------------------------------------------------
(* C1 *)

C1_Premise(r) ==
    /\ r.st = "done" /\ r.handler # Undefined
    /\ \A i \in DOMAIN r.snapshot :
         /\ InScope(r.snapshot[i], r.kind)
         /\ ~Skipped(r.snapshot[i], r.request)
         /\ TargetMatches(r.snapshot[i], r.request)
    /\ PairwiseDistinctPriorities(r.snapshot)
    /\ \A i \in DOMAIN r.calls : r.calls[i] = 1

\* C1: when the registered behaviors have pairwise distinct priorities, all
\* apply to the request and each calls next() exactly once, the trace of a
\* finished dispatch is: the behaviors entered in ascending priority, then the
\* handler, then the behaviors exited in descending priority.
C1_NestedInPriorityOrder ==
    \A d \in DispatchIds :
        LET r == disp[d]
            n == Len(r.snapshot)
        IN  C1_Premise(r) =>
              /\ Len(r.trace) = 2 * n + 1
              /\ IsHandlerEvent(r.trace[n + 1]) /\ r.trace[n + 1].who = r.handler
              /\ \A i \in 1..n :
                   /\ IsEnter(r.trace[i])
                   /\ r.trace[i].who = Ranked(r.snapshot, i).type
                   /\ IsExit(r.trace[2 * n + 2 - i])
                   /\ r.trace[2 * n + 2 - i].who = Ranked(r.snapshot, i).type

\* Three behaviors with distinct priorities ran nested around the handler
C1_Witness ==
    \E d \in DispatchIds :
        /\ C1_Premise(disp[d])
        /\ Len(disp[d].snapshot) = 3
        /\ disp[d].outcome[1].kind = "ok"

----------------------------------------------------------------------------
(* C2 *)

\* C2 as claimed: once an error is raised, all that follows in the dispatch is
\* the error passing through every open behavior, innermost first, once each.
C2_UnwindsThroughEveryOpenBehavior ==
    \A d \in DispatchIds :
        LET r == disp[d]
            t == r.trace
        IN  Built(r) =>
              \A j \in 1..Len(t) :
                (IsFailure(t[j]) /\ (j = 1 \/ ~IsFailure(t[j - 1]))) =>
                    LET open == OpenAfter(t, j)
                        rest == SubSeq(t, j + 1, Len(t))
                    IN  /\ Len(rest) <= Len(open)
                        /\ r.st = "done" => Len(rest) = Len(open)
                        /\ \A m \in 1..Len(rest) :
                             /\ rest[m].ev = "throw"
                             /\ rest[m].idx = open[Len(open) + 1 - m]

\* C2, amended: an error goes to the innermost open behavior, and to no other:
\* that behavior rethrows (the error passes through it, once), or it ends the
\* unwinding by returning or by calling next() again; with no open behavior
\* left the caller receives the error.
C2_UnwindsInnermostFirst ==
    \A d \in DispatchIds :
        LET r == disp[d]
            t == r.trace
        IN  Built(r) =>
              \A j \in 1..Len(t) :
                IsFailure(t[j]) =>
                    LET open == OpenAfter(t, j) IN
                    IF open = <<>>
                      THEN j = Len(t) /\ r.st = "done" /\ r.outcome[1].kind = "err"
                    ELSE IF j = Len(t)
                      THEN /\ r.st = "running"
                           /\ [i \in 1..Len(r.stack) |-> r.stack[i].idx] = open
                    ELSE LET e == t[j + 1]
                             top == open[Len(open)]
                         IN  \/ IsExit(e) /\ e.idx = top
                             \/ (IsEnter(e) \/ IsHandlerEvent(e)) /\ e.idx = top + 1

\* The handler failed inside two behaviors, and the error passed through both
C2_Witness ==
    \E d \in DispatchIds :
        LET r == disp[d] IN
        /\ r.st = "done" /\ Len(r.trace) = 5
        /\ r.trace[3].ev = "failed"
        /\ r.trace[4].ev = "throw" /\ r.trace[4].idx = 2
        /\ r.trace[5].ev = "throw" /\ r.trace[5].idx = 1
        /\ r.outcome[1].kind = "err"

----------------------------------------------------------------------------
(* C3 *)

\* C3: a behavior registered with scope 'query' is never entered in a send,
\* one with scope 'command' never in a query; a behavior with scope 'all' or
\* with no scope is part of the chain of both, unless the request skips it.
C3_ScopeIsRespected ==
    \A d \in DispatchIds :
        LET r == disp[d] IN
        Built(r) =>
          /\ \A k \in DOMAIN r.trace :
               IsEnter(r.trace[k]) =>
                 \E rb \in Range(r.snapshot) :
                    /\ rb.type = r.trace[k].who
                    /\ r.kind = "command" => rb.options.scope # "query"
                    /\ r.kind = "query" => rb.options.scope # "command"
          /\ \A rb \in Range(r.snapshot) :
               (rb.options.scope \in {"all", Undefined} /\ ~Skipped(rb, r.request))
                  => rb \in Range(r.chain)

\* A send ran with a query-only behavior registered, a query with a
\* command-only one
C3_Witness ==
    \E d \in DispatchIds :
        LET r == disp[d] IN
        /\ r.st = "done" /\ r.kind = "command" /\ Built(r)
        /\ \E rb \in Range(r.snapshot) : rb.options.scope = "query"
        /\ \E rb \in Range(r.snapshot) : rb.options.scope = Undefined
        /\ \E k \in DOMAIN r.trace : IsEnter(r.trace[k])

----------------------------------------------------------------------------
(* C4 *)

\* C4: no behavior in the skip-list of the request's class is entered, and the
\* other applicable behaviors make up the chain in their registry order.
C4_SkipListIsRespected ==
    \A d \in DispatchIds :
        LET r == disp[d]
            Wanted(rb) == /\ InScope(rb, r.kind)
                          /\ ~Skipped(rb, r.request)
                          /\ TargetMatches(rb, r.request)
        IN  Built(r) =>
              /\ \A k \in DOMAIN r.trace :
                   IsEnter(r.trace[k]) => r.trace[k].who \notin SkipBehaviorsOf(r.request)
              /\ \A i \in DOMAIN r.chain : ~Skipped(r.chain[i], r.request)
              /\ SelectSeq(r.chain, Wanted) = SelectSeq(r.snapshot, Wanted)

\* A GetUserQuery ran with LoggingBehavior, which it skips, registered, and
\* entered another behavior
C4_Witness ==
    \E d \in DispatchIds :
        LET r == disp[d] IN
        /\ r.st = "done" /\ Built(r) /\ r.request = "GetUserQuery" /\ r.kind = "query"
        /\ \E rb \in Range(r.snapshot) : rb.type = "LoggingBehavior"
        /\ \E k \in DOMAIN r.trace : IsEnter(r.trace[k])

----------------------------------------------------------------------------
(* C5 *)

\* C5 as claimed: a behavior whose handle method declares a request type is
\* entered only in dispatches of a request of exactly that type.
C5_TargetTypeIsRespected ==
    \A d \in DispatchIds :
        LET r == disp[d] IN
        Built(r) =>
          \A k \in DOMAIN r.trace :
             IsEnter(r.trace[k]) =>
                HandleParamType(r.trace[k].who) \in {Undefined, r.request}

----------------------------------------------------------------------------
(* C6 *)

\* The position of the behavior class b in the registration calls
RegisteredAt(b) == CHOOSE i \in DOMAIN regLog : regLog[i].type = b

\* The position of the first "enter" of chain position i in a trace, 0 if none
FirstEnter(t, i) ==
    IF \E k \in DOMAIN t : IsEnter(t[k]) /\ t[k].idx = i
      THEN CHOOSE k \in DOMAIN t :
              /\ IsEnter(t[k]) /\ t[k].idx = i
              /\ \A m \in 1..(k - 1) : ~(IsEnter(t[m]) /\ t[m].idx = i)
      ELSE 0

\* C6: the behaviors of one priority stand in the registry in the order of
\* their registration, and in a dispatch where two of them apply the one
\* registered first is further outward and entered first.
C6_TiesKeepRegistrationOrder ==
    /\ \A p \in {PriorityOf(regLog[i]) : i \in DOMAIN regLog} :
          LET AtP(rb) == PriorityOf(rb) = p IN
          SelectSeq(pipelineBehaviors, AtP) = SelectSeq(regLog, AtP)
    /\ \A d \in DispatchIds :
          LET r == disp[d] IN
          Built(r) =>
            \A i, j \in DOMAIN r.chain :
               (/\ PriorityOf(r.chain[i]) = PriorityOf(r.chain[j])
                /\ RegisteredAt(r.chain[i].type) < RegisteredAt(r.chain[j].type)) =>
                  /\ i < j
                  /\ FirstEnter(r.trace, j) # 0 =>
                        /\ FirstEnter(r.trace, i) # 0
                        /\ FirstEnter(r.trace, i) < FirstEnter(r.trace, j)

\* Two behaviors of priority 0 were both entered in one dispatch, a behavior
\* of lower priority having been registered after them
C6_Witness ==
    \E d \in DispatchIds :
        LET r == disp[d] IN
        /\ r.st = "done" /\ Built(r)
        /\ \E i, j \in DOMAIN r.chain :
              /\ i # j
              /\ PriorityOf(r.chain[i]) = PriorityOf(r.chain[j])
              /\ FirstEnter(r.trace, i) # 0 /\ FirstEnter(r.trace, j) # 0
        /\ Len(regLog) = 3 /\ PriorityOf(regLog[3]) < 0

----------------------------------------------------------------------------
(* C7 *)

\* The sequences in which every element of the set S stands once
RECURSIVE Orderings(_)
Orderings(S) ==
    IF S = {} THEN {<<>>}
    ELSE UNION {{<<x>> \o f : f \in Orderings(S \ {x})} : x \in S}

\* Every order of the registration calls made gives the registry, and so the
\* chain of every request, that the order in which they were made gave
SameUnderEveryPermutation ==
    \A other \in {Replay([i \in 1..Len(regLog) |-> regLog[f[i]]]) :
                      f \in Orderings(DOMAIN regLog)} :
        /\ other = pipelineBehaviors
        /\ \A t \in RequestTypes, scope \in {"command", "query"} :
              applicableBehaviors(other, t, scope) =
                  applicableBehaviors(pipelineBehaviors, t, scope)

\* The chain a dispatch ran is the chain of its request in today's registry
\* (every registration call precedes the first dispatch)
RanTheRegistry ==
    \A d \in DispatchIds :
        Built(disp[d]) =>
            disp[d].chain =
                applicableBehaviors(pipelineBehaviors, disp[d].request, disp[d].kind)

\* C7 as claimed: the chain of every request is the same for every
\* permutation of the registration calls.
C7_OrderIndependentOfRegistration ==
    RanTheRegistry /\ SameUnderEveryPermutation

\* C7, amended: when the registered priorities are pairwise distinct, the
\* chain of every request is the same for every permutation of the
\* registration calls.
C7_OrderIndependentWhenPrioritiesDistinct ==
    /\ RanTheRegistry
    /\ PairwiseDistinctPriorities(regLog) => SameUnderEveryPermutation

\* Three behaviors of distinct priorities were registered in an order that is
\* not the order of their priorities, and a dispatch ran two of them
C7_Witness ==
    /\ Len(regLog) = 3 /\ PairwiseDistinctPriorities(regLog)
    /\ PriorityOf(regLog[1]) > PriorityOf(regLog[2])
    /\ \E d \in DispatchIds :
          /\ disp[d].st = "done" /\ Built(disp[d])
          /\ Len(disp[d].chain) >= 2
          /\ \A i \in DOMAIN disp[d].chain : FirstEnter(disp[d].trace, i) # 0

----------------------------------------------------------------------------
(* C8 *)

\* The request class the handler class was declared for
RequestOf(handler) == (CHOOSE h \in HandlerDecls : h.handler = handler).request

\* The registry holds a handler that was registered for the request class t
HasHandlerFor(registry, t) ==
    \E k \in DOMAIN registry : RequestOf(registry[k]) = t

RegistryOf(kind) == IF kind = "command" THEN commandHandlers ELSE queryHandlers

\* Registering a handler for a class that has one throws and changes nothing
DuplicateRejected ==
    \A h \in HandlerDecls :
        /\ (/\ HasHandlerFor(commandHandlers, h.request)
            /\ registerCommandHandler(h.request, h.handler)) =>
              /\ thrown' = AlreadyRegistered("Command handler for", Name(h.request))
              /\ UNCHANGED <<commandHandlers, queryHandlers, pipelineBehaviors>>
        /\ (/\ HasHandlerFor(queryHandlers, h.request)
            /\ registerQueryHandler(h.request, h.handler)) =>
              /\ thrown' = AlreadyRegistered("Query handler for", Name(h.request))
              /\ UNCHANGED <<commandHandlers, queryHandlers, pipelineBehaviors>>

\* No step takes a registered handler away or puts another in its place, and
\* a step that ends in the duplicate error leaves the three registries alone
RegisteredForGood ==
    /\ \A k \in DOMAIN commandHandlers :
          k \in DOMAIN commandHandlers' /\ commandHandlers'[k] = commandHandlers[k]
    /\ \A k \in DOMAIN queryHandlers :
          k \in DOMAIN queryHandlers' /\ queryHandlers'[k] = queryHandlers[k]
    /\ (thrown' # thrown /\ thrown'.name = "Error") =>
          UNCHANGED <<commandHandlers, queryHandlers, pipelineBehaviors>>

\* A dispatch that found a handler, of a class that has a handler in its
\* namespace, runs that handler
DispatchRunsTheRegistered ==
    \A d \in DispatchIds :
        LET r == disp[d] IN
        (Built(r) /\ HasHandlerFor(RegistryOf(r.kind), r.request)) =>
            /\ r.handler = MapGet(RegistryOf(r.kind), Name(r.request))
            /\ RequestOf(r.handler) = r.request
            /\ \A k \in DOMAIN r.trace :
                  IsHandlerEvent(r.trace[k]) => r.trace[k].who = r.handler

\* C8: registerCommandHandler / registerQueryHandler for a request class that
\* has a handler in that namespace throws and changes neither that registry,
\* nor the other one, nor the behaviors; the handler registered first stays
\* the one a later dispatch of the class runs.
C8_DuplicateHandlerRejected ==
    /\ []DispatchRunsTheRegistered
    /\ [][DuplicateRejected /\ RegisteredForGood]_vars

\* A second registration for CreateUserCommand threw, and a send of a
\* CreateUserCommand then ran the handler registered first
C8_Witness ==
    /\ thrown = AlreadyRegistered("Command handler for", "CreateUserCommand")
    /\ \E d \in DispatchIds :
          LET r == disp[d] IN
          /\ r.st = "done" /\ r.kind = "command" /\ r.request = "CreateUserCommand"
          /\ r.handler = "CreateUserHandler"
          /\ \E k \in DOMAIN r.trace :
                r.trace[k].ev = "executed" /\ r.trace[k].who = "CreateUserHandler"

----------------------------------------------------------------------------
(* C9 *)

\* C9 as claimed: a dispatch of a request whose class has no handler in the
\* namespace of the call fails with HandlerNotFoundException carrying the
\* class name and the namespace, and runs no handler.
C9_MissingHandlerIsReported ==
    \A d \in DispatchIds :
        LET r == disp[d] IN
        (r.st # "idle" /\ ~HasHandlerFor(RegistryOf(r.kind), r.request)) =>
            /\ r.st = "done"
            /\ r.outcome = <<Rejected(HandlerNotFoundException(Name(r.request), r.kind))>>
            /\ r.trace = <<>>

----------------------------------------------------------------------------
(* C10 *)

OtherKind(kind) == IF kind = "command" THEN "query" ELSE "command"

\* C10 as claimed: a dispatch of a request whose class has a handler only in
\* the other namespace fails with HandlerNotFoundException, and a class that
\* has a handler in one namespace gets one in the other without an error.
C10_NamespacesAreSeparate ==
    /\ \A d \in DispatchIds :
          LET r == disp[d] IN
          (/\ r.st # "idle"
           /\ HasHandlerFor(RegistryOf(OtherKind(r.kind)), r.request)
           /\ ~HasHandlerFor(RegistryOf(r.kind), r.request)) =>
              /\ r.st = "done"
              /\ r.outcome[1].error.name = "HandlerNotFoundException"
    /\ \A t \in RequestTypes :
          (HasHandlerFor(commandHandlers, t) /\ HasHandlerFor(queryHandlers, t)) =>
              /\ RequestOf(commandHandlers[Name(t)]) = t
              /\ RequestOf(queryHandlers[Name(t)]) = t

----------------------------------------------------------------------------
(* C11 *)

\* A request class that has no handler in a namespace gets one without error
RegistersWhenClassIsNew ==
    \A h \in HandlerDecls :
        /\ (/\ ~HasHandlerFor(commandHandlers, h.request)
            /\ registerCommandHandler(h.request, h.handler)) =>
              /\ thrown' = NothingThrown
              /\ HasHandlerFor(commandHandlers', h.request)
        /\ (/\ ~HasHandlerFor(queryHandlers, h.request)
            /\ registerQueryHandler(h.request, h.handler)) =>
              /\ thrown' = NothingThrown
              /\ HasHandlerFor(queryHandlers', h.request)

\* Every dispatch that runs a handler runs one registered for the class of
\* its request
RunsOnlyTheHandlerOfTheClass ==
    \A d \in DispatchIds :
        LET r == disp[d] IN
        Built(r) =>
            /\ RequestOf(r.handler) = r.request
            /\ \A k \in DOMAIN r.trace :
                  IsHandlerEvent(r.trace[k]) => RequestOf(r.trace[k].who) = r.request

\* C11 as claimed: the registries are keyed by the request class itself: two
\* classes of the same name each get their handler in one namespace without
\* a duplicate error, and a dispatch runs only the handler registered for the
\* class of its request.
C11_KeyedByRuntimeType ==
    /\ []RunsOnlyTheHandlerOfTheClass
    /\ [][RegistersWhenClassIsNew]_vars

----------------------------------------------------------------------------
(* C12 *)

\* Every behavior that ran returned what its next() had just given it
PassesUnchanged(t) ==
    \A k \in DOMAIN t :
        IsExit(t[k]) =>
            /\ t[k].ev = "return"
            /\ k > 1 /\ ~IsEnter(t[k - 1])
            /\ t[k].settled = t[k - 1].settled

\* The handler events of a trace
HandlerEvents(t) == {k \in DOMAIN t : IsHandlerEvent(t[k])}

\* C12: a query whose behaviors all return the result of next() unchanged
\* gives its caller the value the handler returned; with behaviors of
\* priorities -100, 0 and 100, all of scope 'all', the trace is enter A,
\* enter B, enter C, handler, exit C, exit B, exit A.
C12_QueryReturnsHandlerValue ==
    \A d \in DispatchIds :
        LET r == disp[d]
            t == r.trace
        IN  (/\ r.st = "done" /\ Built(r) /\ r.kind = "query"
             /\ PassesUnchanged(t)
             /\ \E h \in HandlerEvents(t) : t[h].ev = "executed") =>
              /\ \E h \in HandlerEvents(t) :
                    /\ HandlerEvents(t) = {h}
                    /\ t[h].ev = "executed" /\ t[h].who = r.handler
                    /\ r.outcome = t[h].settled
              /\ (/\ {PriorityOf(rb) : rb \in Range(r.snapshot)} = {-100, 0, 100}
                  /\ Len(r.snapshot) = 3
                  /\ \A rb \in Range(r.snapshot) :
                        rb.options.scope = "all" /\ ~Skipped(rb, r.request)) =>
                    /\ [k \in DOMAIN t |-> t[k].ev] =
                          <<"enter", "enter", "enter", "executed",
                            "return", "return", "return">>
                    /\ \A i \in 1..3 :
                          /\ t[i].who = Ranked(r.snapshot, i).type
                          /\ t[8 - i].who = Ranked(r.snapshot, i).type

\* A query ran through ExceptionHandlingBehavior (-100), LoggingBehavior (0)
\* and ValidationBehavior (100) and gave the caller the handler's value
C12_Witness ==
    \E d \in DispatchIds :
        LET r == disp[d] IN
        /\ r.st = "done" /\ Built(r) /\ r.kind = "query" /\ PassesUnchanged(r.trace)
        /\ [i \in DOMAIN r.chain |-> r.chain[i].type] =
              <<"ExceptionHandlingBehavior", "LoggingBehavior", "ValidationBehavior">>
        /\ r.outcome = <<Resolved(r.handler)>>

----------------------------------------------------------------------------
(* C13 *)

\* No behavior of the dispatch has called next() more than once
NextAtMostOnce(r) == \A i \in DOMAIN r.calls : r.calls[i] <= 1

\* The k-th event of the trace is a behavior returning without having called
\* next(): it returns right after it was entered
ShortCircuits(t, k) ==
    /\ k > 1 /\ t[k].ev = "return"
    /\ IsEnter(t[k - 1]) /\ t[k - 1].idx = t[k].idx

\* After the k-th event the behaviors that were open around it exit, each
\* once, innermost first, and nothing else happens
OutersExit(r, k) ==
    LET t == r.trace
        open == OpenAfter(t, k)
        rest == SubSeq(t, k + 1, Len(t))
    IN  /\ Len(rest) <= Len(open)
        /\ r.st = "done" => Len(rest) = Len(open)
        /\ \A m \in 1..Len(rest) :
             IsExit(rest[m]) /\ rest[m].idx = open[Len(open) + 1 - m]

\* Every exit after the k-th event returns what the exit before it gave
OutersPassUnchanged(t, k) ==
    \A m \in (k + 1)..Len(t) :
        t[m].ev = "return" /\ t[m].settled = t[m - 1].settled

SinglePass(r) ==
    LET t == r.trace IN
    /\ \A i \in DOMAIN r.chain :
         Cardinality({k \in DOMAIN t : IsEnter(t[k]) /\ t[k].idx = i}) <= 1
    /\ Cardinality(HandlerEvents(t)) <= 1
    /\ \A k \in DOMAIN t :
         ShortCircuits(t, k) =>
            /\ \A j \in DOMAIN t : t[j].idx <= t[k].idx
            /\ OutersExit(r, k)

\* The dispatch is running and a behavior has just returned without calling
\* next()
ShortCircuited(d) ==
    LET r == disp[d] IN
    /\ r.st = "running" /\ NextAtMostOnce(r)
    /\ r.trace # <<>> /\ ShortCircuits(r.trace, Len(r.trace))

\* The dispatch is done, every behavior around the one that returned without
\* calling next() having exited
ShortCircuitUnwound(d) ==
    LET r == disp[d] IN
    /\ r.st = "done"
    /\ \E k \in DOMAIN r.trace : ShortCircuits(r.trace, k) /\ OutersExit(r, k)

\* C13 as claimed: in a dispatch where every behavior calls next() at most
\* once, the caller receives the result of a behavior that returned without
\* calling next().
C13_CallerReceivesShortCircuitResult ==
    \A d \in DispatchIds :
        LET r == disp[d]
            t == r.trace
        IN  (r.st = "done" /\ Built(r) /\ NextAtMostOnce(r)) =>
              \A k \in DOMAIN t : ShortCircuits(t, k) => r.outcome = t[k].settled

\* The same, when every behavior outside the one that returned without calling
\* next() returns the result of its own next() unchanged: the caller of query
\* receives that behavior's result, and the caller of send receives no value.
CallerReceivesWhatOutersPass ==
    \A d \in DispatchIds :
        LET r == disp[d]
            t == r.trace
        IN  (r.st = "done" /\ Built(r) /\ NextAtMostOnce(r)) =>
              \A k \in DOMAIN t :
                (ShortCircuits(t, k) /\ OutersPassUnchanged(t, k)) =>
                    IF r.kind = "query" THEN r.outcome = t[k].settled
                    ELSE r.outcome = <<Resolved(Undefined)>>

SinglePassAlways ==
    \A d \in DispatchIds :
        (Built(disp[d]) /\ NextAtMostOnce(disp[d])) => SinglePass(disp[d])

\* C13, amended: in a dispatch where every behavior calls next() at most once,
\* each behavior is entered at most once and the handler is invoked at most
\* once; if a behavior returns without calling next(), neither the handler nor
\* a behavior inside it is invoked, every behavior outside it goes on to exit,
\* once and innermost first, and the caller of query receives the result that
\* behavior returned provided the behaviors outside it pass it on unchanged
\* (the caller of send receives no value).
C13_SinglePassAndShortCircuit ==
    /\ []SinglePassAlways
    /\ []CallerReceivesWhatOutersPass
    /\ \A d \in DispatchIds : ShortCircuited(d) ~> ShortCircuitUnwound(d)

\* A cache hit inside LoggingBehavior: the query returned the cached value and
\* the handler never ran
C13_Witness ==
    \E d \in DispatchIds :
        LET r == disp[d]
            t == r.trace
        IN  /\ r.st = "done" /\ r.kind = "query" /\ Len(t) = 4
            /\ t[1].who = "LoggingBehavior" /\ t[2].who = "CachingBehavior"
            /\ ShortCircuits(t, 3) /\ t[4].ev = "return"
            /\ HandlerEvents(t) = {}
            /\ r.outcome = <<Resolved("cached")>>

----------------------------------------------------------------------------
(* C14 *)

\* The behavior is applicable to the request as the documentation has it: it
\* is in scope, not skipped, and declared for this request class or for none
AppliesTo(rb, r) ==
    InScope(rb, r.kind) /\ ~Skipped(rb, r.request) /\ TargetMatches(rb, r.request)

\* The dispatch ran the handler once and nothing else, and its caller got what
\* the handler gave (send gives its caller no value)
TerminalOnly(r) ==
    LET t == r.trace IN
    /\ Len(t) = 1 /\ IsHandlerEvent(t[1]) /\ t[1].who = r.handler
    /\ IF t[1].ev = "executed" /\ r.kind = "command"
         THEN r.outcome = <<Resolved(Undefined)>>
         ELSE r.outcome = t[1].settled

\* C14: when no registered behavior is applicable to the request (none is
\* registered, or each is excluded by its scope, by the request's skip-list or
\* by its target type), a finished dispatch ran the handler exactly once and no
\* behavior, and the caller received the handler's result or error.
C14_NoApplicableBehaviorIsTerminal ==
    \A d \in DispatchIds :
        LET r == disp[d] IN
        (/\ r.st = "done" /\ Built(r)
         /\ \A i \in DOMAIN r.snapshot : ~AppliesTo(r.snapshot[i], r)) =>
            TerminalOnly(r)

----------------------------------------------------------------------------
(* C15 *)

\* After the error of the k-th event, a behavior enclosing the one that
\* raised it throws another error
EnclosingRaisesAnother(t, k) ==
    \E m \in (k + 1)..Len(t) :
        t[m].ev = "throw" /\ t[m].idx < t[k].idx /\ t[m].settled # t[k].settled

\* After the error of the k-th event, a behavior enclosing the one that
\* raised it returns normally
EnclosingReturns(t, k) ==
    \E m \in (k + 1)..Len(t) : t[m].ev = "return" /\ t[m].idx < t[k].idx

\* After the error of the k-th event, a behavior enclosing the one that
\* raised it calls next() again: what raised the error is run once more
EnclosingCallsNextAgain(t, k) ==
    \E m \in (k + 1)..Len(t) :
        (IsEnter(t[m]) \/ IsHandlerEvent(t[m])) /\ t[m].idx <= t[k].idx

\* C15 as claimed: an error raised by the handler or by a behavior is what the
\* caller receives, unless an enclosing behavior raises a different one.
C15_ErrorReachesCallerUnlessReplaced ==
    \A d \in DispatchIds :
        LET r == disp[d]
            t == r.trace
        IN  (r.st = "done" /\ Built(r)) =>
              \A k \in DOMAIN t :
                IsFailure(t[k]) =>
                    r.outcome = t[k].settled \/ EnclosingRaisesAnother(t, k)

\* The same, a behavior being also free to return normally or to call next()
\* again
ErrorReachesCallerUnlessHandled ==
    \A d \in DispatchIds :
        LET r == disp[d]
            t == r.trace
        IN  (r.st = "done" /\ Built(r)) =>
              \A k \in DOMAIN t :
                IsFailure(t[k]) =>
                    \/ r.outcome = t[k].settled
                    \/ EnclosingRaisesAnother(t, k)
                    \/ EnclosingReturns(t, k)
                    \/ EnclosingCallsNextAgain(t, k)

\* What the handler or a behavior settled with is what the behavior around it
\* gets from next(), and what the caller gets from the outermost when it is an
\* error; with no registered behavior the caller gets the handler's own error
CoreLeavesErrorsAlone ==
    \A d \in DispatchIds :
        LET r == disp[d]
            t == r.trace
            last == t[Len(t)]
        IN  (Built(r) /\ t # <<>> /\ ~IsEnter(last)) =>
              /\ (r.st = "running" /\ r.mode = "run") => Top(r.stack).got = last.settled
              /\ (r.st = "done" /\ IsFailure(last)) => r.outcome = last.settled
              /\ (r.st = "done" /\ r.snapshot = <<>> /\ last.ev = "failed") =>
                    /\ Len(t) = 1 /\ last.who = r.handler
                    /\ r.outcome = last.settled

\* C15, amended: an error raised by the handler or by a behavior reaches the
\* caller of send/query as the same error value unless an enclosing behavior
\* catches it and raises a different one, returns normally, or calls next()
\* again; the core hands every error on as it is, so with no registered
\* behaviors the caller receives the handler's own error.
C15_ErrorReachesCallerUnlessHandled ==
    ErrorReachesCallerUnlessHandled /\ CoreLeavesErrorsAlone

\* The handler's error passed through a behavior that rethrew it, and the
\* caller received it
C15_Witness ==
    \E d \in DispatchIds :
        LET r == disp[d]
            t == r.trace
        IN  /\ r.st = "done" /\ Len(t) = 3
            /\ t[2].ev = "failed" /\ t[3].ev = "throw"
            /\ r.outcome = t[2].settled

----------------------------------------------------------------------------
(* C16 *)

\* The passes of the dispatch through the catch block of
\* ExceptionHandlingBehavior.handle: processException logs an error each time
CatchPathRuns(r) ==
    Cardinality({i \in DOMAIN r.log :
        r.log[i].by = "ExceptionHandlingBehavior" /\ r.log[i].level = "error"})

\* The exits of ExceptionHandlingBehavior in a trace
ExceptionHandlingExits(t) ==
    {m \in DOMAIN t : IsExit(t[m]) /\ t[m].who = "ExceptionHandlingBehavior"}

\* C16: ExceptionHandlingBehavior never swallows an error. When its next()
\* fails, handle fails too, with the original error or with the one an
\* exception handler gave, and the catch path has run exactly once; when its
\* next() succeeds, handle returns that result unchanged and the catch path
\* has not run. When it is the only behavior and the handler raises an error,
\* the caller receives an error.
C16_ExceptionHandlingNeverSwallows ==
    \A d \in DispatchIds :
        LET r == disp[d]
            t == r.trace
        IN  Built(r) =>
              /\ \A m \in ExceptionHandlingExits(t) :
                   /\ m > 1 /\ ~IsEnter(t[m - 1])
                   /\ IF IsFailure(t[m - 1])
                        THEN /\ t[m].ev = "throw" /\ t[m].settled[1].kind = "err"
                             /\ \/ t[m].settled = t[m - 1].settled
                                \/ \E h \in Range(exceptionHandlers) :
                                      t[m].settled = <<Rejected(Err(h.gives))>>
                             /\ CatchPathRuns(r) = 1
                        ELSE /\ t[m].ev = "return" /\ t[m].settled = t[m - 1].settled
                             /\ CatchPathRuns(r) = 0
              /\ (r.st = "done" /\ \E k \in DOMAIN t : t[k].who = "ExceptionHandlingBehavior")
                    => Cardinality(ExceptionHandlingExits(t)) = 1
              /\ (/\ r.st = "done" /\ Len(r.chain) = 1
                   /\ r.chain[1].type = "ExceptionHandlingBehavior"
                   /\ \E k \in DOMAIN t : t[k].ev = "failed")
                    => r.outcome[1].kind = "err"

\* ExceptionHandlingBehavior was the only behavior around a handler that
\* failed: the catch path ran once and the caller received an error
C16_Witness ==
    \E d \in DispatchIds :
        LET r == disp[d]
            t == r.trace
        IN  /\ r.st = "done" /\ Len(r.chain) = 1 /\ Len(t) = 3
            /\ t[1].who = "ExceptionHandlingBehavior"
            /\ t[2].ev = "failed" /\ t[3].ev = "throw"
            /\ CatchPathRuns(r) = 1
            /\ r.outcome[1].kind = "err"

----------------------------------------------------------------------------
(* C17 *)

IsCanHandleCall(e) == e.level = "canHandle"

IsHandleCall(e) == e.level = "handle"

\* The exception handlers an error was shown to (canHandle), and those that
\* were given it to transform (handle), in the order of the calls
Consulted(r) == SelectSeq(r.log, IsCanHandleCall)

Applied(r) == SelectSeq(r.log, IsHandleCall)

\* The registered exception handlers that accept the error, by position
Accepting(error) ==
    {i \in DOMAIN exceptionHandlers : error.name \in exceptionHandlers[i].accepts}

\* C17: ExceptionHandlingBehavior shows the error of its next() to the
\* registered exception handlers in registration order; the error it throws is
\* what the first handler whose canHandle accepts gives, no handler after that
\* one is consulted or applied, and when none accepts the original error is
\* thrown.
C17_FirstAcceptingHandlerWins ==
    \A d \in DispatchIds :
        LET r == disp[d]
            t == r.trace
        IN  Built(r) =>
              \A m \in ExceptionHandlingExits(t) :
                IsFailure(t[m - 1]) =>
                    LET error == t[m - 1].settled[1].error
                        acc == Accepting(error)
                    IN  IF acc = {}
                          THEN /\ t[m].settled = t[m - 1].settled
                               /\ Applied(r) = <<>>
                               /\ Len(Consulted(r)) = Len(exceptionHandlers)
                               /\ \A i \in DOMAIN exceptionHandlers :
                                    /\ Consulted(r)[i].by = exceptionHandlers[i].handler
                                    /\ Consulted(r)[i].message = "false"
                          ELSE LET first == CHOOSE i \in acc : \A j \in acc : i <= j IN
                               /\ t[m].settled = <<Rejected(Err(exceptionHandlers[first].gives))>>
                               /\ Len(Consulted(r)) = first
                               /\ \A i \in 1..first :
                                    /\ Consulted(r)[i].by = exceptionHandlers[i].handler
                                    /\ Consulted(r)[i].message =
                                          (IF i = first THEN "true" ELSE "false")
                               /\ Len(Applied(r)) = 1
                               /\ Applied(r)[1].by = exceptionHandlers[first].handler

\* Two registered exception handlers accept the handler's error: the one
\* registered first transformed it and the other was not consulted
C17_Witness ==
    \E d \in DispatchIds :
        LET r == disp[d] IN
        /\ r.st = "done" /\ Len(exceptionHandlers) = 2
        /\ exceptionHandlers[1].handler = "DomainExceptionHandler"
        /\ exceptionHandlers[2].handler = "AnyExceptionHandler"
        /\ \E k \in DOMAIN r.trace : r.trace[k].ev = "failed"
        /\ Len(Consulted(r)) = 1
        /\ r.outcome = <<Rejected(Err("ConflictException"))>>

----------------------------------------------------------------------------
(* C18 *)

IsValidated(e) == e.by = "ValidationBehavior" /\ e.level = "validated"

\* What validateRequest gave in the dispatch, one list of errors for each pass
\* through ValidationBehavior
Validated(r) == SelectSeq(r.log, IsValidated)

\* C18: ValidationBehavior validates before it calls next(). When validation
\* gives errors, handle fails with a ValidationException that carries the whole
\* list and next() is never called: the handler does not run. When it gives
\* none, handle calls next() exactly once and returns its result, or throws
\* its error, unchanged.
C18_ValidatesBeforeNext ==
    \A d \in DispatchIds :
        LET r == disp[d]
            t == r.trace
        IN  Built(r) =>
              \A k \in DOMAIN t :
                (IsEnter(t[k]) /\ t[k].who = "ValidationBehavior") =>
                    LET idx == t[k].idx IN
                    /\ Len(Validated(r)) <= 1
                    /\ (k < Len(t) \/ r.calls[idx] > 0) => Len(Validated(r)) = 1
                    /\ Len(Validated(r)) = 1 =>
                         IF Validated(r)[1].data # <<>>
                           THEN /\ r.calls[idx] = 0
                                /\ Len(t) > k
                                /\ t[k + 1].ev = "throw" /\ t[k + 1].idx = idx
                                /\ t[k + 1].settled[1].error.name = "ValidationException"
                                /\ t[k + 1].settled[1].error.errors = Validated(r)[1].data
                                /\ HandlerEvents(t) = {}
                           ELSE /\ r.calls[idx] = 1
                                /\ \A m \in DOMAIN t :
                                     (IsExit(t[m]) /\ t[m].idx = idx) =>
                                        /\ m > k + 1
                                        /\ t[m].settled = t[m - 1].settled
                                        /\ t[m].ev = (IF IsFailure(t[m - 1])
                                                         THEN "throw" ELSE "return")
                                /\ r.st = "done" =>
                                     \E m \in DOMAIN t : IsExit(t[m]) /\ t[m].idx = idx

\* A request with two validation errors: ValidationBehavior threw a
\* ValidationException with both and the handler did not run
C18_Witness ==
    \E d \in DispatchIds :
        LET r == disp[d]
            t == r.trace
        IN  /\ r.st = "done" /\ HandlerEvents(t) = {}
            /\ \E k \in DOMAIN t :
                 /\ t[k].who = "ValidationBehavior" /\ t[k].ev = "throw"
                 /\ t[k].settled[1].error.errors = <<"email", "name">>

----------------------------------------------------------------------------
(* C19 *)

IsLoggingEntry(e) == e.by = "LoggingBehavior"

\* The lines LoggingBehavior wrote in the dispatch
LoggingLog(r) == SelectSeq(r.log, IsLoggingEntry)

\* The entries and the exits of the behavior at chain position idx
EntersOf(t, idx) == {k \in DOMAIN t : IsEnter(t[k]) /\ t[k].idx = idx}

ExitsOf(t, idx) == {m \in DOMAIN t : IsExit(t[m]) /\ t[m].idx = idx}

\* C19: LoggingBehavior is transparent. In each pass through it, it calls
\* next() exactly once and returns exactly the result of next(), or rethrows
\* exactly its error; and it writes one start line followed by exactly one
\* line, of success when next() succeeded and of failure when it failed.
C19_LoggingIsTransparent ==
    \A d \in DispatchIds :
        LET r == disp[d]
            t == r.trace
        IN  Built(r) =>
              \A idx \in DOMAIN r.chain :
                r.chain[idx].type = "LoggingBehavior" =>
                    LET enters == EntersOf(t, idx)
                        exits == ExitsOf(t, idx)
                        L == LoggingLog(r)
                    IN  /\ \A m \in exits :
                             /\ m > 1 /\ ~IsEnter(t[m - 1])
                             /\ t[m].settled = t[m - 1].settled
                             /\ t[m].ev = (IF IsFailure(t[m - 1]) THEN "throw" ELSE "return")
                             /\ LET pass == Cardinality({n \in exits : n <= m}) IN
                                /\ Len(L) >= 2 * pass
                                /\ L[2 * pass].message =
                                      (IF t[m].ev = "return" THEN "Handled successfully"
                                       ELSE "Failed")
                                /\ L[2 * pass].level =
                                      (IF t[m].ev = "return" THEN "log" ELSE "error")
                        /\ Cardinality(exits) <= r.calls[idx]
                        /\ r.calls[idx] <= Cardinality(enters)
                        /\ Cardinality(enters) <= Cardinality(exits) + 1
                        /\ r.st = "done" =>
                             /\ r.calls[idx] = Cardinality(enters)
                             /\ Cardinality(exits) = Cardinality(enters)
                        /\ Len(L) = r.calls[idx] + Cardinality(exits)
                        /\ \A i \in DOMAIN L :
                             i % 2 = 1 => L[i].message = "Handling" /\ L[i].level = "log"

\* RetryBehavior ran LoggingBehavior twice: the first pass logged a failure,
\* the second a success
C19_Witness ==
    \E d \in DispatchIds :
        LET r == disp[d]
            L == LoggingLog(r)
        IN  /\ r.st = "done" /\ Len(L) = 4
            /\ L[1].message = "Handling" /\ L[2].message = "Failed"
            /\ L[3].message = "Handling" /\ L[4].message = "Handled successfully"
            /\ r.outcome[1].kind = "ok"

----------------------------------------------------------------------------
(* C20 *)

IsPerformanceEntry(e) == e.by = "PerformanceBehavior"

\* What PerformanceBehavior measured and wrote in the dispatch
PerformanceLog(r) == SelectSeq(r.log, IsPerformanceEntry)

\* The threshold in force: 500 ms unless the options give another
ThresholdInForce ==
    IF performanceOptions.thresholdMs = <<>> THEN 500
    ELSE performanceOptions.thresholdMs[1]

\* The options ask for a line on every request
LogAllInForce == performanceOptions.logAllRequests = <<TRUE>>

\* C20: PerformanceBehavior never alters the control flow. In each pass it
\* calls next() exactly once and returns its result, or rethrows its error,
\* unchanged; once next() has settled, on the success path as on the error
\* path, it writes a warning if and only if the elapsed time is strictly
\* greater than the threshold (500 ms unless overridden), otherwise a debug
\* line if and only if logAllRequests is set, otherwise nothing.
C20_PerformanceNeverAltersControlFlow ==
    \A d \in DispatchIds :
        LET r == disp[d]
            t == r.trace
        IN  Built(r) =>
              \A idx \in DOMAIN r.chain :
                r.chain[idx].type = "PerformanceBehavior" =>
                    LET enters == EntersOf(t, idx)
                        exits == ExitsOf(t, idx)
                        P == PerformanceLog(r)
                        measured == {i \in DOMAIN P : P[i].level = "measured"}
                    IN  /\ \A m \in exits :
                             /\ m > 1 /\ ~IsEnter(t[m - 1])
                             /\ t[m].settled = t[m - 1].settled
                             /\ t[m].ev = (IF IsFailure(t[m - 1]) THEN "throw" ELSE "return")
                        /\ Cardinality(exits) <= r.calls[idx]
                        /\ r.calls[idx] <= Cardinality(enters)
                        /\ r.st = "done" =>
                             /\ r.calls[idx] = Cardinality(enters)
                             /\ Cardinality(exits) = Cardinality(enters)
                        /\ Cardinality(measured) = Cardinality(exits)
                        /\ \A i \in DOMAIN P :
                             IF i \in measured
                               THEN LET elapsed == P[i].data[1]
                                        written == IF i < Len(P) /\ (i + 1) \notin measured
                                                     THEN {P[i + 1].level} ELSE {}
                                    IN  /\ ("warn" \in written) <=> (elapsed > ThresholdInForce)
                                        /\ ("debug" \in written) <=>
                                              (elapsed <= ThresholdInForce /\ LogAllInForce)
                               ELSE /\ P[i].level \in {"warn", "debug"}
                                    /\ i > 1 /\ (i - 1) \in measured

\* With the default threshold a failing request took 501 ms: a warning was
\* written and the error was rethrown
C20_Witness ==
    \E d \in DispatchIds :
        LET r == disp[d]
            t == r.trace
            P == PerformanceLog(r)
        IN  /\ r.st = "done" /\ performanceOptions.thresholdMs = <<>>
            /\ Len(P) = 2 /\ P[1].data = <<501>> /\ P[2].level = "warn"
            /\ \E m \in DOMAIN t : t[m].who = "PerformanceBehavior" /\ t[m].ev = "throw"
            /\ r.outcome[1].kind = "err"

----------------------------------------------------------------------------
(* C21 *)

\* The priority of a descriptor, a missing one counting as 0
PriorityOrZero(rb) ==
    IF rb.options.priority = <<>> THEN 0 ELSE rb.options.priority[1]

SortedByPriority(s) ==
    \A i, j \in DOMAIN s : i < j => PriorityOrZero(s[i]) <= PriorityOrZero(s[j])

\* s and t hold the same descriptors, each as many times
SameDescriptors(s, t) ==
    /\ Len(s) = Len(t)
    /\ \A x \in Range(s) \cup Range(t) :
         Cardinality({i \in DOMAIN s : s[i] = x}) = Cardinality({i \in DOMAIN t : t[i] = x})

\* c is s with some elements left out, the others in the order they have in s
IsFilterOf(c, s) ==
    \E keep \in SUBSET (DOMAIN s) :
        /\ Cardinality(keep) = Len(c)
        /\ \A i \in DOMAIN c :
             \E k \in keep :
                /\ Cardinality({m \in keep : m <= k}) = i
                /\ c[i] = s[k]

\* C21: in every reachable state the behavior registry is sorted by
\* non-decreasing priority (a missing priority counting as 0) and holds every
\* registered descriptor; the chain of a dispatch is a filter of the registry
\* as it was at the dispatch, in the registry's order.
C21_RegistryStaysSorted ==
    /\ SortedByPriority(pipelineBehaviors)
    /\ SameDescriptors(pipelineBehaviors, regLog)
    /\ \A d \in DOMAIN disp :
         Built(disp[d]) =>
            /\ SortedByPriority(disp[d].snapshot)
            /\ IsFilterOf(disp[d].chain, disp[d].snapshot)

\* Three behaviors were registered in descending priority, and a dispatch ran
\* with two of them, in the registry's order
C21_Witness ==
    /\ Len(regLog) = 3
    /\ PriorityOrZero(regLog[1]) > PriorityOrZero(regLog[2])
    /\ PriorityOrZero(regLog[2]) > PriorityOrZero(regLog[3])
    /\ \E d \in DOMAIN disp :
         /\ disp[d].st = "done" /\ Len(disp[d].chain) = 2
         /\ disp[d].snapshot = pipelineBehaviors

----------------------------------------------------------------------------
(* C22 *)

\* Two dispatches of requests of the same type in the same namespace, with no
\* registration between them: the registry only grows, so it was the same
\* for both
SameRequestSameRegistry(r1, r2) ==
    /\ Built(r1) /\ Built(r2)
    /\ r1.request = r2.request /\ r1.kind = r2.kind
    /\ r1.snapshot = r2.snapshot

----------------------------------------------------------------------------
(* C23 *)

\* A step of a dispatch (a call of send or query, or a step of its chain)
\* leaves the three registries as they were
DispatchLeavesRegistries ==
    disp' # disp => UNCHANGED <<commandHandlers, queryHandlers, pipelineBehaviors>>

\* Every entry of the map m is in the map n, with the same handler
MapKeeps(m, n) == \A k \in DOMAIN m : k \in DOMAIN n /\ n[k] = m[k]

\* No step removes or replaces a registered descriptor: the handler maps keep
\* their entries, and the behaviors registered before are all in the sequence
\* after the step, in the same order
NothingRemovedOrReplaced ==
    /\ MapKeeps(commandHandlers, commandHandlers')
    /\ MapKeeps(queryHandlers, queryHandlers')
    /\ IsFilterOf(pipelineBehaviors, pipelineBehaviors')

\* C23: send and query never modify the handler registries or the behavior
\* registry: across every step of a dispatch, however it ends, the command
\* handler map, the query handler map and the behavior sequence are unchanged;
\* and no operation of the bus removes or replaces a registered descriptor.
C23_DispatchLeavesRegistriesAlone ==
    [][DispatchLeavesRegistries /\ NothingRemovedOrReplaced]_vars

\* A second handler for a registered command was refused, and then a dispatch
\* through two behaviors failed: the registry is what the dispatch started with
C23_Witness ==
    \E d \in DOMAIN disp :
        /\ thrown.name = "Error"
        /\ disp[d].st = "done" /\ disp[d].outcome[1].kind = "err"
        /\ Built(disp[d]) /\ Len(disp[d].chain) = 2
        /\ disp[d].snapshot = pipelineBehaviors

----------------------------------------------------------------------------
(* C24 *)

\* A step changes one dispatch at most
OneDispatchAtATime ==
    \A d1, d2 \in DOMAIN disp :
        d1 # d2 => (disp'[d1] = disp[d1] \/ disp'[d2] = disp[d2])

\* The chain of the dispatch is what the registry of its time gives for its
\* own request: the behaviors in scope that the request class does not skip
OwnChain(r) ==
    /\ IsFilterOf(r.chain, r.snapshot)
    /\ \A rb \in Range(r.snapshot) :
         rb \in Range(r.chain) <=> (InScope(rb, r.kind) /\ ~Skipped(rb, r.request))

\* The trace is one a dispatch running alone has when its behaviors call
\* next() at most once: the behaviors of its chain are entered from the
\* outermost on, none skipped or repeated, the handler registered for its
\* request runs after the innermost, and each exit is that of the innermost
\* open behavior; everything is called with the request of the dispatch
RunsAsAlone(r) ==
    LET t == r.trace
        n == Len(r.chain)
    IN  \A k \in DOMAIN t :
          /\ t[k].arg = r.request
          /\ IF IsEnter(t[k])
               THEN /\ t[k].idx \in 1..n /\ t[k].who = r.chain[t[k].idx].type
                    /\ IF t[k].idx = 1 THEN k = 1
                       ELSE IsEnter(t[k - 1]) /\ t[k - 1].idx = t[k].idx - 1
             ELSE IF IsHandlerEvent(t[k])
               THEN /\ t[k].idx = n + 1 /\ t[k].who = r.handler
                    /\ r.handler = MapGet(RegistryOf(r.kind), Name(r.request))
                    /\ IF n = 0 THEN k = 1
                       ELSE IsEnter(t[k - 1]) /\ t[k - 1].idx = n
             ELSE /\ OpenAfter(t, k - 1) # <<>>
                  /\ t[k].idx = OpenAfter(t, k - 1)[Len(OpenAfter(t, k - 1))]
                  /\ t[k].who = r.chain[t[k].idx].type

\* The caller gets what the outermost continuation of its own chain settled
\* with (send gives no value)
OwnResult(r) ==
    r.st = "done" =>
        LET last == r.trace[Len(r.trace)] IN
        /\ OpenAfter(r.trace, Len(r.trace)) = <<>>
        /\ IF last.settled[1].kind = "ok" /\ r.kind = "command"
             THEN r.outcome = <<Resolved(Undefined)>>
             ELSE r.outcome = last.settled
        /\ last.settled[1].kind = "ok" =>
             last.settled[1].value \in {r.handler, "cached"}

EachDispatchOnItsOwn ==
    \A d \in DOMAIN disp :
        Built(disp[d]) => OwnChain(disp[d]) /\ RunsAsAlone(disp[d]) /\ OwnResult(disp[d])

\* C24: when send/query calls are in flight together and interleave, each
\* dispatch passes its own request to the behaviors and the handler it
\* invokes, invokes the handler registered for its own request type, and has
\* the entry/exit order it has when run alone: a step of one dispatch changes
\* nothing of another, no behavior is skipped, repeated or reordered, and the
\* caller gets the result of its own chain.
C24_DispatchesDoNotInterfere ==
    []EachDispatchOnItsOwn /\ [][OneDispatchAtATime]_vars

\* A command and a query are in flight together, each inside its behaviors
C24_Witness ==
    \E d1, d2 \in DOMAIN disp :
        /\ disp[d1].st = "running" /\ disp[d2].st = "running"
        /\ disp[d1].kind = "command" /\ disp[d2].kind = "query"
        /\ Len(disp[d1].stack) = 2 /\ Len(disp[d2].stack) = 2

----------------------------------------------------------------------------
(* C25 *)

\* A dispatch in flight keeps the chain and the registry it started with
InFlightKeepsItsChain ==
    \A d \in DOMAIN disp :
        (disp[d].st = "running" /\ disp'[d].st # "idle") =>
            /\ disp'[d].chain = disp[d].chain
            /\ disp'[d].snapshot = disp[d].snapshot
            /\ disp'[d].request = disp[d].request

\* A registration changes nothing of a dispatch
RegistrationLeavesDispatches ==
    pipelineBehaviors' # pipelineBehaviors => disp' = disp

\* A dispatch that starts has the chain the registry of that moment gives
StartsFromTheRegistry ==
    \A d \in DOMAIN disp :
        (disp[d].st # "running" /\ disp'[d].st = "running") =>
            /\ disp'[d].snapshot = pipelineBehaviors
            /\ disp'[d].trace = <<>>
            /\ OwnChain(disp'[d])

\* Nothing runs in a dispatch but the behaviors selected at its start, and
\* its handler
RunsOnlyItsSnapshot ==
    \A d \in DOMAIN disp :
        LET r == disp[d] IN
        Built(r) =>
            /\ OwnChain(r)
            /\ \A k \in DOMAIN r.trace :
                 \/ IsHandlerEvent(r.trace[k])
                 \/ \E i \in DOMAIN r.chain :
                       r.trace[k].idx = i /\ r.trace[k].who = r.chain[i].type

\* C25: the set and order of the behaviors applicable to a dispatch are fixed
\* when send/query is called: a registerPipelineBehavior call made while the
\* dispatch is suspended adds no behavior to its chain, removes none and does
\* not reorder it, and a dispatch that starts later has the new behavior.
C25_DispatchRunsOnASnapshot ==
    /\ []RunsOnlyItsSnapshot
    /\ [][InFlightKeepsItsChain /\ RegistrationLeavesDispatches
            /\ StartsFromTheRegistry]_vars

\* A second behavior that applies to queries is registered while a query is
\* inside its chain of one behavior, the handler having run: the query goes
\* on without it
C25_Witness ==
    \E d \in DOMAIN disp :
        LET r == disp[d] IN
        /\ r.st = "running" /\ r.kind = "query" /\ Len(r.chain) = 1
        /\ Len(r.snapshot) = 1 /\ Len(pipelineBehaviors) = 2
        /\ \A rb \in Range(pipelineBehaviors) :
             InScope(rb, r.kind) /\ ~Skipped(rb, r.request)
        /\ Len(r.trace) = 2 /\ IsHandlerEvent(r.trace[2])

----------------------------------------------------------------------------
(* C26 *)

\* A started chain is not cancelled: a running dispatch stays the dispatch of
\* the same request until it is done, and what it has done is not undone
NothingCancels ==
    \A d \in DOMAIN disp :
        disp[d].st = "running" =>
            /\ disp'[d].st \in {"running", "done"}
            /\ disp'[d].request = disp[d].request /\ disp'[d].kind = disp[d].kind
            /\ Len(disp'[d].trace) >= Len(disp[d].trace)
            /\ SubSeq(disp'[d].trace, 1, Len(disp[d].trace)) = disp[d].trace

\* A dispatch that is done resolved or rejected
Settled(d) ==
    /\ disp[d].st = "done"
    /\ Len(disp[d].outcome) = 1 /\ disp[d].outcome[1].kind \in {"ok", "err"}

\* C26: every started dispatch runs to completion. The handler and the
\* behaviors terminating and each behavior calling next() at most once, each
\* send/query eventually resolves or rejects, and no step of the caller or of
\* another dispatch cancels a chain that has started.
C26_EveryDispatchCompletes ==
    /\ \A d \in ConcurrentDispatchIds : (disp[d].st = "running") ~> Settled(d)
    /\ [][NothingCancels]_vars

\* A dispatch through two behaviors completed while another one was in flight
C26_Witness ==
    \E d1, d2 \in DOMAIN disp :
        /\ Settled(d1) /\ Len(disp[d1].chain) = 2 /\ Len(disp[d1].trace) = 5
        /\ NextAtMostOnce(disp[d1])
        /\ disp[d2].st = "running" /\ disp[d2].trace # <<>>

----------------------------------------------------------------------------
(* C27 *)

\* What a caller can tell of a dispatch: everything, but of the error that
\* reports a missing handler only that it is an error
Observed(r) ==
    IF r.st = "done" /\ r.handler = Undefined
      THEN [r EXCEPT !.outcome = <<r.outcome[1].kind>>]
      ELSE r

\* The step is one of the bus without pipelines, from the same registries and
\* dispatches
PlainStep ==
    \/ \E h \in HandlerDecls :
          LET after == PlainRegisterCommandHandler(h.request, h.handler) IN
          /\ h.kind = "command"
          /\ commandHandlers' = after.handlers /\ thrown' = after.thrown
          /\ UNCHANGED <<queryHandlers, disp>>
    \/ \E h \in HandlerDecls :
          LET after == PlainRegisterQueryHandler(h.request, h.handler) IN
          /\ h.kind = "query"
          /\ queryHandlers' = after.handlers /\ thrown' = after.thrown
          /\ UNCHANGED <<commandHandlers, disp>>
    \/ \E d \in DOMAIN disp, t \in RequestTypes :
          /\ disp[d].st # "running"
          /\ \/ Observed(disp'[d]) = Observed(PlainSend(t))
             \/ Observed(disp'[d]) = Observed(PlainQuery(t))
          /\ UNCHANGED <<commandHandlers, queryHandlers, thrown>>
    \/ \E d \in DOMAIN disp :
          /\ disp[d].st = "running"
          /\ \E settled \in HandlerOutcomes(disp[d].handler) :
                disp'[d] = PlainExecute(disp[d], settled)
          /\ UNCHANGED <<commandHandlers, queryHandlers, thrown>>

\* Whatever the bus without pipelines can do, the bus with pipelines can do
\* from the same registries and dispatches
PlainStepsAreTaken ==
    /\ \A h \in HandlerDecls :
         IF h.kind = "command"
           THEN ENABLED (/\ registerCommandHandler(h.request, h.handler)
                         /\ commandHandlers' =
                              PlainRegisterCommandHandler(h.request, h.handler).handlers
                         /\ thrown' =
                              PlainRegisterCommandHandler(h.request, h.handler).thrown)
           ELSE ENABLED (/\ registerQueryHandler(h.request, h.handler)
                         /\ queryHandlers' =
                              PlainRegisterQueryHandler(h.request, h.handler).handlers
                         /\ thrown' =
                              PlainRegisterQueryHandler(h.request, h.handler).thrown)
    /\ \A d \in DOMAIN disp, t \in RequestTypes :
         disp[d].st # "running" =>
            /\ ENABLED (send(d, t) /\ Observed(disp'[d]) = Observed(PlainSend(t)))
            /\ ENABLED (query(d, t) /\ Observed(disp'[d]) = Observed(PlainQuery(t)))
    /\ \A d \in DOMAIN disp :
         disp[d].st = "running" =>
            \A settled \in HandlerOutcomes(disp[d].handler) :
                ENABLED (HandlerExecute(d) /\ disp'[d] = PlainExecute(disp[d], settled))

\* With no behavior registered a finished dispatch invoked the handler
\* registered for its request exactly once, with its request, and the caller
\* received what it gave; a missing handler is reported as an error
HandlerAloneRan ==
    \A d \in DOMAIN disp :
        LET r == disp[d] IN
        r.st = "done" =>
            IF r.handler = Undefined
              THEN r.trace = <<>> /\ r.outcome[1].kind = "err"
              ELSE /\ Len(r.trace) = 1 /\ IsHandlerEvent(r.trace[1])
                   /\ r.trace[1].who = MapGet(RegistryOf(r.kind), Name(r.request))
                   /\ r.trace[1].arg = r.request
                   /\ IF r.kind = "command" /\ r.trace[1].ev = "executed"
                        THEN r.outcome = <<Resolved(Undefined)>>
                        ELSE r.outcome = r.trace[1].settled

\* C27: with no pipeline behavior registered, the bus with pipelines is
\* observably the bus without them, for every sequence of registrations and
\* dispatches: each of its steps is a step of the bus without pipelines and
\* conversely, so the same registrations succeed or fail, the same handler is
\* invoked exactly once with the same request, and the same result or handler
\* error reaches the caller, a missing handler being reported as an error.
C27_SameAsWithoutPipelines ==
    /\ [](pipelineBehaviors = <<>> /\ HandlerAloneRan /\ PlainStepsAreTaken)
    /\ [][PlainStep]_vars

\* A second handler for a command was refused, the query handler ran and the
\* caller received its value
C27_Witness ==
    \E d \in DOMAIN disp :
        /\ thrown.name = "Error"
        /\ disp[d].st = "done" /\ disp[d].kind = "query"
        /\ disp[d].outcome = <<Resolved("GetUserHandler")>>

----------------------------------------------------------------------------
(* C28 *)

BuiltInTypes == {b.type : b \in BuiltInBehaviorDecls}

\* The enable flag of a built-in behavior in the options of the module
FlagOf(type) ==
    CASE type = "ExceptionHandlingBehavior" -> dynamicModule.options.enableExceptionHandling
      [] type = "LoggingBehavior"           -> dynamicModule.options.enableLogging
      [] type = "PerformanceBehavior"       -> dynamicModule.options.enablePerformanceTracking
      [] type = "ValidationBehavior"        -> dynamicModule.options.enableValidation

Provides(type) ==
    \E i \in DOMAIN dynamicModule.providers : dynamicModule.providers[i] = type

InRegistry(type) ==
    \E i \in DOMAIN pipelineBehaviors : pipelineBehaviors[i].type = type

\* The application lists the class itself in options.behaviors
ListedByApplication(type) ==
    /\ dynamicModule.options.behaviors # <<>>
    /\ \E i \in DOMAIN dynamicModule.options.behaviors[1] :
          dynamicModule.options.behaviors[1][i] = type

----------------------------------------------------------------------------
(* C29 *)

\* The descriptor with priority 0 written where it has none and scope 'all'
\* written where it has none
WithDefaults(rb) ==
    [type |-> rb.type,
     options |-> Options(<<PriorityOrZero(rb)>>,
                         IF rb.options.scope = Undefined THEN "all" ELSE rb.options.scope)]

TypesOf(s) == [i \in DOMAIN s |-> s[i].type]

\* The registry the same registerPipelineBehavior calls give when every
\* missing priority is written as 0 and every missing scope as 'all'
RegistryWithDefaults == Replay([i \in DOMAIN regLog |-> WithDefaults(regLog[i])])

\* C29: a behavior registered without a priority is ordered exactly as if its
\* priority were 0, and one registered without a scope is applied to send and
\* to query exactly as if its scope were 'all': the registry, the behaviors
\* selected for every request in either scope, and the chain of every dispatch
\* are those of the same registrations with the defaults written out.
C29_MissingOptionsAreDefaults ==
    /\ TypesOf(pipelineBehaviors) = TypesOf(RegistryWithDefaults)
    /\ \A t \in RequestTypes, scope \in {"command", "query"} :
          TypesOf(applicableBehaviors(pipelineBehaviors, t, scope)) =
              TypesOf(applicableBehaviors(RegistryWithDefaults, t, scope))
    /\ \A d \in DOMAIN disp :
          disp[d].handler # Undefined =>
              TypesOf(disp[d].chain) =
                  TypesOf(applicableBehaviors(
                      [i \in DOMAIN disp[d].snapshot |-> WithDefaults(disp[d].snapshot[i])],
                      disp[d].request, disp[d].kind))

\* CustomBehavior, registered with no priority and no scope before
\* LoggingBehavior (priority 0) and after CachingBehavior (priority 5), sits
\* before both in the registry, and ran in a query
C29_Witness ==
    /\ TypesOf(regLog) = <<"CachingBehavior", "CustomBehavior", "LoggingBehavior">>
    /\ TypesOf(pipelineBehaviors) = <<"CustomBehavior", "LoggingBehavior", "CachingBehavior">>
    /\ \E d \in DOMAIN disp :
          /\ disp[d].st = "done" /\ disp[d].kind = "query"
          /\ \E i \in DOMAIN disp[d].trace :
                disp[d].trace[i].who = "CustomBehavior" /\ disp[d].trace[i].ev = "enter"

----------------------------------------------------------------------------
(* C30 *)

\* The step is a send or a query of the dispatch d that found a handler
HandlerFound(d) ==
    /\ disp[d].st # "running" /\ disp'[d] # disp[d]
    /\ disp'[d].handler # Undefined

\* After send or query has built the pipeline nothing has run and nothing has
\* failed: the dispatch holds the composed chain, about to call its outermost
\* continuation
BuildOnlyComposes ==
    \A d \in DOMAIN disp :
        HandlerFound(d) =>
            /\ disp'[d].st = "running" /\ disp'[d].outcome = <<>>
            /\ disp'[d].trace = <<>> /\ disp'[d].log = <<>> /\ disp'[d].stack = <<>>
            /\ disp'[d].chain =
                   applicableBehaviors(pipelineBehaviors, disp'[d].request, disp'[d].kind)
            /\ disp'[d].mode = "call" /\ disp'[d].pos = 1

\* Behaviors and the handler run only in the steps of a chain under execution
RunsOnlyInExecution ==
    \A d \in DOMAIN disp :
        (disp'[d].trace # disp[d].trace /\ disp'[d].trace # <<>>) =>
            disp[d].st = "running"

\* A dispatch that found its handler and failed, failed in its chain: a
\* behavior or the handler raised the error while the chain ran
FailsOnlyInExecution ==
    \A d \in DOMAIN disp :
        LET r == disp[d] IN
        (r.st = "done" /\ r.handler # Undefined /\ r.outcome[1].kind = "err") =>
            \E i \in DOMAIN r.trace : IsFailure(r.trace[i])

\* C30: building a pipeline never fails and only composes: for every registry
\* and every request whose handler was found, send and query come out of
\* buildPipeline with a continuation, no error raised and no behavior or
\* handler invoked; behaviors and the handler run only when the continuation
\* is executed, so every failure after handler lookup occurs in the chain.
C30_BuildingOnlyComposes ==
    /\ []FailsOnlyInExecution
    /\ [][BuildOnlyComposes /\ RunsOnlyInExecution]_vars

\* A pipeline of two behaviors selected from a registry of three has just
\* been built, and nothing has run
C30_Witness ==
    \E d \in DOMAIN disp :
        /\ disp[d].st = "running" /\ disp[d].trace = <<>>
        /\ Len(disp[d].chain) = 2 /\ Len(pipelineBehaviors) = 3
        /\ disp[d].mode = "call" /\ disp[d].pos = 1

----------------------------------------------------------------------------
(* C31 *)

\* The chain positions at which the behavior class is
PositionsOf(r, type) == {p \in DOMAIN r.chain : r.chain[p].type = type}

\* What the calls of next() made at chain position p have settled with, in
\* order: the results of the continuation of position p + 1
NextResults(r, p) ==
    LET settles == SelectSeq(r.trace,
                             LAMBDA e : e.idx = p + 1 /\ (IsExit(e) \/ IsHandlerEvent(e)))
    IN  [i \in DOMAIN settles |-> settles[i].settled[1]]

\* The delays RetryBehavior has slept in the dispatch, in order
Delays(r) ==
    LET sleeps == SelectSeq(r.log,
                            LAMBDA l : l.by = "RetryBehavior" /\ l.level = "sleep")
    IN  [i \in DOMAIN sleeps |-> sleeps[i].data[1]]

\* The settled results of the handler's invocations, in order
HandlerResults(r) ==
    LET ran == SelectSeq(r.trace, IsHandlerEvent)
    IN  [i \in DOMAIN ran |-> ran[i].settled[1]]

Transient(result) == result.kind = "err" /\ ~isNonRetryableError(result.error)

\* C31: in a finished dispatch RetryBehavior has called next() at least once
\* and at most 3 times; every attempt but the last failed with a retryable
\* error and was followed by a delay of 100 * 2^(attempt - 1) ms; the last
\* attempt succeeded, and its result is returned, or failed with an error whose
\* name contains 'Validation', 'NotFound', 'Unauthorized' or 'Forbidden', or
\* was the 3rd, and its error is thrown. When every attempt reaches a handler
\* that fails k times and then succeeds, send succeeds iff k <= 2, the handler
\* having been invoked k + 1 times.
C31_RetriesAtMostThreeTimes ==
    \A d \in DOMAIN disp :
        LET r == disp[d] IN
        \A p \in PositionsOf(r, "RetryBehavior") :
            LET results == NextResults(r, p)
                n == Len(results)
                ran == HandlerResults(r)
            IN  r.st = "done" =>
                  /\ n = r.calls[p] /\ n >= 1 /\ n <= 3
                  /\ \A i \in 1..(n - 1) : Transient(results[i])
                  /\ Delays(r) = [i \in 1..(n - 1) |-> 100 * 2 ^ (i - 1)]
                  /\ \/ results[n].kind = "ok"
                     \/ isNonRetryableError(results[n].error)
                     \/ n = 3
                  /\ \E k \in DOMAIN r.trace :
                        /\ r.trace[k].idx = p /\ IsExit(r.trace[k])
                        /\ r.trace[k].settled = <<results[n]>>
                        /\ r.trace[k].ev = IF results[n].kind = "ok" THEN "return" ELSE "throw"
                  /\ (p = 1 /\ Len(ran) = n) =>
                        /\ \A i \in 1..(n - 1) : ran[i].kind = "err"
                        /\ r.outcome[1].kind = "ok" <=> ran[n].kind = "ok"
                        /\ r.outcome[1].kind = "err" => n = 3

\* A payment that fails twice and then succeeds: the handler ran three times,
\* RetryBehavior slept 100 and 200 ms, and send succeeded
C31_Witness ==
    \E d \in DOMAIN disp :
        LET r == disp[d] IN
        /\ r.st = "done" /\ r.request = "ProcessPaymentCommand" /\ failCount = 2
        /\ PositionsOf(r, "RetryBehavior") = {1} /\ Len(r.chain) = 3
        /\ Len(HandlerResults(r)) = 3 /\ Delays(r) = <<100, 200>>
        /\ r.outcome = <<Resolved(Undefined)>>

----------------------------------------------------------------------------
(* C32 *)

\* How many times the continuation of chain position q has run: the entries
\* of the behavior there, or the invocations of the handler after the chain
RunsOf(r, q) ==
    IF q <= Len(r.chain) THEN Cardinality(EntersOf(r.trace, q))
    ELSE Cardinality(HandlerEvents(r.trace))

\* Every behavior outside position p was entered and exited exactly once
OutsideOnce(r, p) ==
    \A q \in 1..(p - 1) :
        Cardinality(EntersOf(r.trace, q)) = 1 /\ Cardinality(ExitsOf(r.trace, q)) = 1

\* With ExceptionHandling outside Retry outside Logging, a command that fails
\* twice and then succeeds leaves two failure records and one success record
\* of Logging, and the catch path of ExceptionHandling does not run
FailsTwiceThenSucceeds(r) ==
    (/\ TypesOf(r.chain) = <<"ExceptionHandlingBehavior", "RetryBehavior", "LoggingBehavior">>
     /\ Len(HandlerResults(r)) = 3
     /\ HandlerResults(r)[1].kind = "err" /\ HandlerResults(r)[2].kind = "err"
     /\ HandlerResults(r)[3].kind = "ok") =>
        /\ [i \in DOMAIN LoggingLog(r) |-> LoggingLog(r)[i].message] =
               <<"Handling", "Failed", "Handling", "Failed",
                 "Handling", "Handled successfully">>
        /\ CatchPathRuns(r) = 0
        /\ r.outcome = <<Resolved(Undefined)>>

\* C32 (as stated): when RetryBehavior calls next() n times, every behavior
\* inside it is entered and exited n times and the handler is invoked up to n
\* times, while every behavior outside it is entered and exited exactly once;
\* with ExceptionHandling outside Retry outside Logging, a command that fails
\* twice and then succeeds gives two failure records and one success record in
\* Logging and never runs the catch path of ExceptionHandling.
C32_InnerChainRunsEveryTime ==
    \A d \in DOMAIN disp :
        LET r == disp[d] IN
        r.st = "done" =>
            /\ FailsTwiceThenSucceeds(r)
            /\ \A p \in PositionsOf(r, "RetryBehavior") :
                  /\ \A q \in (p + 1)..Len(r.chain) :
                        /\ Cardinality(EntersOf(r.trace, q)) = r.calls[p]
                        /\ Cardinality(ExitsOf(r.trace, q)) = r.calls[p]
                  /\ RunsOf(r, Len(r.chain) + 1) <= r.calls[p]
                  /\ OutsideOnce(r, p)

\* C32 (amended): each call of next() runs the next continuation of the chain
\* anew, so the behavior (or handler) at a chain position is entered as many
\* times as the behavior before it called next(), and exits as many times as it
\* is entered. When RetryBehavior calls next() n times, the behavior next
\* inside it is entered and exited n times, every behavior further inside and
\* the handler at most n times (a behavior that fails before calling next()
\* keeps the ones inside it from running), and every behavior outside it
\* exactly once; the scenario of the three behaviors is as stated.
C32_NextRunsTheInnerChainAnew ==
    \A d \in DOMAIN disp :
        LET r == disp[d] IN
        r.st = "done" =>
            /\ FailsTwiceThenSucceeds(r)
            /\ \A q \in 2..(Len(r.chain) + 1) : RunsOf(r, q) = r.calls[q - 1]
            /\ \A q \in DOMAIN r.chain :
                  Cardinality(ExitsOf(r.trace, q)) = Cardinality(EntersOf(r.trace, q))
            /\ \A p \in PositionsOf(r, "RetryBehavior") :
                  /\ \A q \in (p + 1)..(Len(r.chain) + 1) : RunsOf(r, q) <= r.calls[p]
                  /\ OutsideOnce(r, p)

\* The payment failed twice and then succeeded inside ExceptionHandling,
\* Retry and Logging: Logging was entered three times, the others once
C32_Witness ==
    \E d \in DOMAIN disp :
        LET r == disp[d] IN
        /\ r.st = "done"
        /\ TypesOf(r.chain) = <<"ExceptionHandlingBehavior", "RetryBehavior", "LoggingBehavior">>
        /\ Len(HandlerResults(r)) = 3 /\ HandlerResults(r)[3].kind = "ok"
        /\ Cardinality(EntersOf(r.trace, 3)) = 3
        /\ Cardinality(EntersOf(r.trace, 1)) = 1 /\ Cardinality(EntersOf(r.trace, 2)) = 1

----------------------------------------------------------------------------
(* C33 *)

\* The dispatch d is in CachingBehavior.handle and takes its next step
CachingStep(d) ==
    /\ disp[d].st = "running" /\ disp[d].mode = "run"
    /\ disp[d].chain[Top(disp[d].stack).idx].type = "CachingBehavior"
    /\ disp'[d] # disp[d]

\* The cache key of the request of d has an entry that expires strictly later
\* than now
Hit(d) ==
    LET key == <<Name(disp[d].request), "{userId:1}">> IN
    key \in DOMAIN cache /\ cache[key].expiry > now

\* In this step the activation at chain position p of d exited as `ev` with
\* `result`, having called next() `calls` times more
ExitedWith(d, p, ev, result, calls) ==
    LET t == disp'[d].trace IN
    /\ Len(t) = Len(disp[d].trace) + 1
    /\ t[Len(t)].ev = ev /\ t[Len(t)].idx = p /\ t[Len(t)].settled = <<result>>
    /\ disp'[d].calls[p] = disp[d].calls[p] + calls

\* In this step the activation at chain position p of d called next()
CalledNext(d, p) ==
    /\ disp'[d].trace = disp[d].trace
    /\ disp'[d].calls[p] = disp[d].calls[p] + 1
    /\ disp'[d].mode = "call" /\ disp'[d].pos = p + 1

\* What CachingBehavior.handle does in each of its steps
CachingContract(d) ==
    LET f == Top(disp[d].stack)
        key == <<Name(disp[d].request), "{userId:1}">>
    IN  IF f.got = <<>>
          THEN /\ cache' = cache
               /\ IF Hit(d)
                    THEN ExitedWith(d, f.idx, "return", Resolved(cache[key].data), 0)
                    ELSE CalledNext(d, f.idx)
        ELSE IF f.got[1].kind = "ok"
          THEN /\ ExitedWith(d, f.idx, "return", f.got[1], 0)
               /\ cache' = [k \in DOMAIN cache \cup {key} |->
                               IF k = key
                                 THEN [data |-> f.got[1].value, expiry |-> now + 30000]
                                 ELSE cache[k]]
        ELSE /\ ExitedWith(d, f.idx, "throw", f.got[1], 0)
             /\ cache' = cache

\* In a finished dispatch CachingBehavior called next() at most once, and
\* when it did not, nothing inside it was invoked
NextOnlyOnMiss ==
    \A d \in DOMAIN disp :
        \A p \in PositionsOf(disp[d], "CachingBehavior") :
            disp[d].st = "done" =>
                /\ disp[d].calls[p] <= 1
                /\ disp[d].calls[p] = 0 =>
                      \A k \in DOMAIN disp[d].trace : disp[d].trace[k].idx <= p

\* C33: for a query whose cache key has an entry with expiry strictly later
\* than now, CachingBehavior.handle returns the cached data without calling
\* next(), so that neither the handler nor an inner behavior is invoked;
\* otherwise it calls next() exactly once and, only if next() succeeds, stores
\* the result under the key with expiry now + 30000 ms and returns it; a failed
\* next() stores nothing and its error propagates; the cache changes in no
\* other way but clearCache, after which every key misses.
C33_CachingServesFreshEntries ==
    /\ []NextOnlyOnMiss
    /\ [][\A d \in DOMAIN disp : CachingStep(d) => CachingContract(d)]_vars
    /\ [][(cache' # cache /\ \A d \in DOMAIN disp : ~CachingStep(d)) =>
              (cache' = <<>> /\ \A d \in DOMAIN disp : ~Hit(d)')]_vars

\* A query answered from the cache half a lifetime after the entry was
\* stored: the handler did not run
C33_Witness ==
    \E d \in DOMAIN disp :
        LET r == disp[d] IN
        /\ r.st = "done" /\ now = 15000
        /\ \E p \in PositionsOf(r, "CachingBehavior") : r.calls[p] = 0
        /\ HandlerEvents(r.trace) = {}
        /\ r.outcome = <<Resolved("GetUserHandler")>>
        /\ cache[<<"GetUserQuery", "{userId:1}">>].expiry = 30000

----------------------------------------------------------------------------
(* C34 *)

\* The dispatch went through CachingBehavior and invoked the handler
InvokedHandlerThroughCache(r) ==
    /\ PositionsOf(r, "CachingBehavior") # {}
    /\ HandlerEvents(r.trace) # {}

\* C34: for two dispatches of queries with the same cache key the handler is
\* invoked at most once while the entry lives: with a clock that stands still
\* and a cache that is never cleared, no two dispatches with the same key have
\* both invoked the handler, also when both are in flight at the same time and
\* both check the cache before either stores its result.
C34_HandlerRunsOncePerKey ==
    \A d1, d2 \in DOMAIN disp :
        (/\ d1 # d2
         /\ InvokedHandlerThroughCache(disp[d1])
         /\ InvokedHandlerThroughCache(disp[d2])) =>
            generateCacheKey(disp[d1].request) # generateCacheKey(disp[d2].request)

----------------------------------------------------------------------------
(* C35 *)

\* The dispatch d is at the start of AuthorizationBehavior.handle and takes
\* its next step
AuthorizationStep(d) ==
    /\ disp[d].st = "running" /\ disp[d].mode = "run"
    /\ disp[d].chain[Top(disp[d].stack).idx].type = "AuthorizationBehavior"
    /\ Top(disp[d].stack).got = <<>>
    /\ disp'[d] # disp[d]

IsAdmin(user) == user # <<>> /\ "admin" \in user[1].roles

\* An unauthorised request fails without next() being called
RefusesTheUnauthorised(d) ==
    LET p == Top(disp[d].stack).idx IN
    IF currentUser = <<>>
      THEN ExitedWith(d, p, "throw", Rejected(Err("UnauthorizedException")), 0)
    ELSE IF disp[d].request = "DeleteUserCommand" /\ ~IsAdmin(currentUser)
      THEN ExitedWith(d, p, "throw", Rejected(Err("ForbiddenException")), 0)
    ELSE CalledNext(d, p)

\* The users AuthorizationBehavior let through in the dispatch, one for each
\* pass in which it called next()
Authorized(r) ==
    SelectSeq(r.log, LAMBDA l : l.by = "AuthorizationBehavior" /\ l.level = "log")

\* DeleteUserHandler has run at most once for each pass in which the
\* behavior found an admin, and the behavior let nobody else through
DeleteOnlyByAdmin ==
    \A d \in DOMAIN disp :
        LET r == disp[d] IN
        (r.request = "DeleteUserCommand" /\ PositionsOf(r, "AuthorizationBehavior") # {}) =>
            /\ \A i \in DOMAIN Authorized(r) : IsAdmin(Authorized(r)[i].data)
            /\ Cardinality(HandlerEvents(r.trace)) <= Len(Authorized(r))
            /\ \A k \in HandlerEvents(r.trace) : r.trace[k].who = "DeleteUserHandler"

\* C35: AuthorizationBehavior never calls next() for an unauthorised request:
\* with no user set it fails with UnauthorizedException, and for a
\* DeleteUserCommand of a user without the 'admin' role it fails with
\* ForbiddenException; so with the behavior in the chain DeleteUserHandler
\* executes only in dispatches in which the current user had the 'admin' role
\* when the behavior ran, whatever setUser calls and dispatches came before or
\* in between.
C35_DeleteNeedsAdmin ==
    /\ []DeleteOnlyByAdmin
    /\ [][\A d \in DOMAIN disp : AuthorizationStep(d) => RefusesTheUnauthorised(d)]_vars

\* An admin deleted a user while the other caller, who had sent the same
\* command before the admin logged in, was refused
C35_Witness ==
    \E d1, d2 \in DOMAIN disp :
        /\ disp[d1].st = "done" /\ disp[d1].request = "DeleteUserCommand"
        /\ disp[d1].outcome = <<Resolved(Undefined)>>
        /\ HandlerEvents(disp[d1].trace) # {}
        /\ PositionsOf(disp[d1], "AuthorizationBehavior") # {}
        /\ disp[d2].st = "done" /\ disp[d2].request = "DeleteUserCommand"
        /\ disp[d2].outcome = <<Rejected(Err("ForbiddenException"))>>
        /\ currentUser = <<>>

----------------------------------------------------------------------------
(* C36 *)

\* What AuditLoggingBehavior has appended in the dispatch, in order: the
\* action and the place of the entry in the audit log
AuditedBy(r) == SelectSeq(r.log, LAMBDA l : l.by = "AuditLoggingBehavior")

ExecutingOf(r) == SelectSeq(AuditedBy(r), LAMBDA l : l.message = "Executing")

\* The dispatch d is in AuditLoggingBehavior.handle and takes its next step
AuditStep(d) ==
    /\ disp[d].st = "running" /\ disp[d].mode = "run"
    /\ disp[d].chain[Top(disp[d].stack).idx].type = "AuditLoggingBehavior"
    /\ disp'[d] # disp[d]

\* The step of the behavior appends one entry: 'Executing' with a call of
\* next(), 'Completed' with the result of next(), 'Failed' with its error
AuditContract(d) ==
    LET f == Top(disp[d].stack)
        appended == auditLogs'[Len(auditLogs')].action
    IN  /\ Len(auditLogs') = Len(auditLogs) + 1
        /\ SubSeq(auditLogs', 1, Len(auditLogs)) = auditLogs
        /\ IF f.got = <<>> THEN appended = "Executing" /\ CalledNext(d, f.idx)
           ELSE IF Got(f).kind = "ok"
             THEN appended = "Completed" /\ ExitedWith(d, f.idx, "return", Got(f), 0)
           ELSE appended = "Failed" /\ ExitedWith(d, f.idx, "throw", Got(f), 0)

\* The entries of a dispatch are its own, come in pairs of an 'Executing' and
\* a later 'Completed' or 'Failed', one pair for each pass through the
\* behavior, and there are none for a query or a ProcessPaymentCommand
AuditedInPairs ==
    /\ \A i \in DOMAIN auditLogs :
          auditLogs[i].requestName \notin {"ProcessPaymentCommand", "GetUserQuery"}
    /\ \A d \in DOMAIN disp :
          LET r == disp[d]
              own == AuditedBy(r)
          IN  /\ (r.kind = "query" \/ r.request = "ProcessPaymentCommand") =>
                    (own = <<>> /\ PositionsOf(r, "AuditLoggingBehavior") = {})
              /\ \A i \in DOMAIN own :
                    /\ own[i].data[1] \in DOMAIN auditLogs
                    /\ auditLogs[own[i].data[1]].action = own[i].message
                    /\ auditLogs[own[i].data[1]].requestName = Name(r.request)
                    /\ i > 1 => own[i - 1].data[1] < own[i].data[1]
                    /\ IF i % 2 = 1 THEN own[i].message = "Executing"
                       ELSE own[i].message \in {"Completed", "Failed"}
              /\ \A p \in PositionsOf(r, "AuditLoggingBehavior") :
                    /\ Len(ExecutingOf(r)) = r.calls[p]
                    /\ Len(own) - Len(ExecutingOf(r)) = Cardinality(ExitsOf(r.trace, p))
                    /\ r.st = "done" => Len(own) = 2 * Len(ExecutingOf(r))

\* C36 as stated: a command dispatch that passes through AuditLoggingBehavior
\* has one 'Executing' entry
C36_OneExecutingPerDispatch ==
    \A d \in DOMAIN disp : Len(ExecutingOf(disp[d])) <= 1

\* C36: AuditLoggingBehavior appends, for each pass of a command dispatch
\* through it (one for each attempt of a RetryBehavior outside it), one
\* 'Executing' entry before calling next() and then exactly one of 'Completed'
\* or 'Failed', rethrowing the error unchanged; it never appends for a query
\* nor for ProcessPaymentCommand; entries of concurrent dispatches may
\* interleave, but each 'Executing' of a dispatch precedes its own 'Completed'
\* or 'Failed'.
C36_OneExecutingPerPass ==
    /\ []AuditedInPairs
    /\ [][/\ \A d \in DOMAIN disp : AuditStep(d) => AuditContract(d)
          /\ auditLogs' # auditLogs => \E d \in DOMAIN disp : AuditStep(d)]_vars

\* A command failed once and completed on the retry while the 'Executing'
\* entry of the other caller came between its entries
C36_Witness ==
    \E d1, d2 \in DOMAIN disp :
        /\ disp[d1].st = "done" /\ disp[d1].request = "CreateUserCommand"
        /\ Len(AuditedBy(disp[d1])) = 4
        /\ AuditedBy(disp[d1])[2].message = "Failed"
        /\ AuditedBy(disp[d1])[4].message = "Completed"
        /\ AuditedBy(disp[d2]) # <<>>
        /\ AuditedBy(disp[d1])[1].data[1] < AuditedBy(disp[d2])[1].data[1]
        /\ AuditedBy(disp[d2])[1].data[1] < AuditedBy(disp[d1])[2].data[1]

----------------------------------------------------------------------------
(* C37 *)

\* The behaviors a request of the example application goes through, outermost
\* first
ExpectedChain(request) ==
    IF request = "CreateUserCommand"
      THEN <<"ExceptionHandlingBehavior", "RetryBehavior", "LoggingBehavior",
             "PerformanceBehavior", "AuthorizationBehavior", "AuditLoggingBehavior",
             "CreateUserValidationBehavior", "ValidationBehavior">>
    ELSE <<"ExceptionHandlingBehavior", "CachingBehavior", "AuthorizationBehavior",
           "ValidationBehavior">>

\* The classes of the behaviors entered and not yet exited after the first j
\* events of the dispatch, outermost first
OpenTypes(r, j) ==
    [i \in DOMAIN OpenAfter(r.trace, j) |-> r.chain[OpenAfter(r.trace, j)[i]].type]

IsPrefix(s, t) == Len(s) <= Len(t) /\ s = SubSeq(t, 1, Len(s))

\* C37: with the nine behaviors of the example application registered, in any
\* order, send(CreateUserCommand) enters ExceptionHandling (-100), Retry (-50),
\* Logging (0), Performance (10), Authorization (25), AuditLogging (50),
\* CreateUserValidation (95), Validation (100), in that order, before the
\* handler and never CachingBehavior; query(GetUserQuery), which skips
\* Performance and Logging, enters ExceptionHandling, Caching (5),
\* Authorization, Validation, in that order.
C37_ExampleExecutionOrder ==
    \A d \in DispatchIds :
        LET r == disp[d] IN
        (r.st \in {"running", "done"} /\ r.handler # Undefined) =>
            /\ [i \in DOMAIN r.chain |-> r.chain[i].type] = ExpectedChain(r.request)
            /\ \A k \in DOMAIN r.trace :
                  /\ IsPrefix(OpenTypes(r, k), ExpectedChain(r.request))
                  /\ IsHandlerEvent(r.trace[k]) =>
                        OpenTypes(r, k - 1) = ExpectedChain(r.request)
                  /\ r.request = "CreateUserCommand" =>
                        r.trace[k].who # "CachingBehavior"

\* A CreateUserCommand has reached its handler on the retry, after a
\* GetUserQuery had reached its own and left its result in the cache
C37_Witness ==
    \E d \in DispatchIds :
        /\ disp[d].st = "done" /\ disp[d].request = "CreateUserCommand"
        /\ disp[d].outcome = <<Resolved(Undefined)>>
        /\ Cardinality(EntersOf(disp[d].trace, 7)) = 2
        /\ \E k \in HandlerEvents(disp[d].trace) :
              disp[d].trace[k].who = "CreateUserHandler"
        /\ cache # <<>>

----------------------------------------------------------------------------
(* C38 *)

\* The dispatch failed with HandlerNotFoundException
HandlerNotFound(r) ==
    r.st = "done" /\ r.outcome[1].kind = "err"
    /\ r.outcome[1].error.name = "HandlerNotFoundException"

\* C38: a missing handler is detected before any behavior is entered: when
\* send or query fails with HandlerNotFoundException no behavior was invoked,
\* so the error reaches the caller as it was made, neither transformed nor
\* logged by ExceptionHandlingBehavior, and RetryBehavior never retries it.
C38_NotFoundBeforeAnyBehavior ==
    \A d \in DispatchIds :
        LET r == disp[d] IN
        /\ (r.st # "idle" /\ r.handler = Undefined) => HandlerNotFound(r)
        /\ HandlerNotFound(r) =>
              /\ r.handler = Undefined
              /\ r.trace = <<>> /\ r.log = <<>> /\ r.chain = <<>>
              /\ r.outcome = <<Rejected(HandlerNotFoundException(Name(r.request), r.kind))>>

\* A request without handler was dispatched while ExceptionHandlingBehavior
\* and RetryBehavior were registered
C38_Witness ==
    \E d \in DispatchIds :
        /\ HandlerNotFound(disp[d]) /\ disp[d].kind = "command"
        /\ \E i, j \in DOMAIN pipelineBehaviors :
              /\ pipelineBehaviors[i].type = "ExceptionHandlingBehavior"
              /\ pipelineBehaviors[j].type = "RetryBehavior"

----------------------------------------------------------------------------
(* C39 *)

\* C39: after any sequence of registerPipelineBehavior calls each behavior
\* class appears at most once in the ordered sequence, so a dispatch enters
\* each behavior at most once, also when the same class is registered more
\* than once.
C39_EachBehaviorRegisteredOnce ==
    /\ \A i, j \in DOMAIN pipelineBehaviors :
          pipelineBehaviors[i].type = pipelineBehaviors[j].type => i = j
    /\ \A d \in DispatchIds :
          \A k, m \in DOMAIN disp[d].trace :
              (/\ IsEnter(disp[d].trace[k]) /\ IsEnter(disp[d].trace[m])
               /\ disp[d].trace[k].who = disp[d].trace[m].who) => k = m

----------------------------------------------------------------------------
(* C40 *)

\* The dispatch d is in ValidationBehavior.handle and takes its next step
ValidationStep(d) ==
    /\ disp[d].st = "running" /\ disp[d].mode = "run"
    /\ disp[d].chain[Top(disp[d].stack).idx].type = "ValidationBehavior"
    /\ disp'[d] # disp[d]

\* The request is not an object, the library is unavailable, the class has no
\* validation metadata, or the library raises
CannotValidate ==
    \/ ~validator.requestIsObject
    \/ ~validator.classValidatorAvailable
    \/ ~validator.hasMetadata
    \/ validator.raises

\* The step of the behavior: it calls next() when it cannot validate, and
\* otherwise calls next() or fails with a ValidationException that lists
\* errors; afterwards it gives what next() gave
ValidationContract(d) ==
    LET f == Top(disp[d].stack) IN
    IF f.got = <<>>
      THEN /\ CannotValidate => CalledNext(d, f.idx)
           /\ \/ CalledNext(d, f.idx)
              \/ \E errors \in ValidationResults \ {<<>>} :
                    ExitedWith(d, f.idx, "throw",
                               Rejected(ValidationException(errors)), 0)
    ELSE IF Got(f).kind = "ok" THEN ExitedWith(d, f.idx, "return", Got(f), 0)
    ELSE ExitedWith(d, f.idx, "throw", Got(f), 0)

\* A finished pass through the behavior called next() once when it could not
\* validate
NextOnceWhenOpen ==
    \A d \in DispatchIds :
        \A p \in PositionsOf(disp[d], "ValidationBehavior") :
            /\ disp[d].calls[p] <= Cardinality(EntersOf(disp[d].trace, p))
            /\ (disp[d].st = "done" /\ CannotValidate) =>
                  disp[d].calls[p] = Cardinality(EntersOf(disp[d].trace, p))

\* C40: ValidationBehavior fails open: when the request is not an object, the
\* validation library is unavailable, the class of the request has no
\* validation metadata or the library raises, the request is treated as valid
\* and next() is called exactly once; handle fails only with a
\* ValidationException that has a non-empty error list or with the error
\* raised by next().
C40_ValidationFailsOpen ==
    /\ []NextOnceWhenOpen
    /\ [][\A d \in DispatchIds : ValidationStep(d) => ValidationContract(d)]_vars

\* The library raised while a payment was validated, and the behavior passed
\* on the failure of the handler
C40_Witness ==
    \E d \in DispatchIds :
        /\ validator.requestIsObject /\ validator.classValidatorAvailable
        /\ validator.hasMetadata /\ validator.raises
        /\ disp[d].st = "done" /\ disp[d].request = "ProcessPaymentCommand"
        /\ disp[d].outcome = <<Rejected(Err("Error"))>>
        /\ \E p \in PositionsOf(disp[d], "ValidationBehavior") :
              /\ disp[d].calls[p] = 1
              /\ Cardinality(ExitsOf(disp[d].trace, p)) = 1

====
